---- MODULE Spec2Model ----
(***************************************************************************)
(* kafka-performance-test-wrapper: the result parser (lib/parser.py), the   *)
(* text reporter (lib/reporter.py) and the orchestrator's run(), check()  *)
(* and render command (kafka_perf.py).                                     *)
(*                                                                         *)
(* Text is a sequence of symbols.  Every character the code looks at on    *)
(* its own (a digit, '.', ',', '(', ')', '-', '+', ':', ' ', newline) is   *)
(* a symbol; a run of letters that the code only ever meets inside a       *)
(* literal ("records", "ms", "Topic", "abc", "NaN", ...) is one symbol.    *)
(* The alphabet has no bare "e" and no "_", so a numeric token is a sign,  *)
(* digits and at most one '.', or one of the words float() knows.          *)
(***************************************************************************)
EXTENDS Integers, Sequences, FiniteSets, TLC

VARIABLES content, pc, result,
          rpc, cfg, prodExit, consExit, prodOut, consOut, summary, files,
          temps, events,
          extracted, report, html

vars == <<content, pc, result,
          rpc, cfg, prodExit, consExit, prodOut, consOut, summary, files,
          temps, events,
          extracted, report, html>>

parserVars == <<content, pc, result>>
runVars == <<rpc, cfg, prodExit, consExit, prodOut, consOut, summary, files,
             temps, events>>
\* the values _render_report extracts, the text report (generated by
\* TextReporter or printed by _render_report) and the HTML page written
reportVars == <<extracted, report, html>>

(***************************************************************************)
(* Bounds of the model.                                                    *)
(***************************************************************************)
MaxFrac == 2
MaxDaySpan == 1

(***************************************************************************)
(* Symbols and the str methods the parser uses.                            *)
(***************************************************************************)
Digit == {"0", "1", "2", "3", "4", "5", "6", "7", "8", "9"}
NL == "\n"
Whitespace == {" ", NL}

NA == <<"N/A">>

Pow10(n) == IF n = 0 THEN 1 ELSE IF n = 1 THEN 10 ELSE IF n = 2 THEN 100
            ELSE IF n = 3 THEN 1000 ELSE IF n = 4 THEN 10000
            ELSE IF n = 5 THEN 100000 ELSE 1000000

MinOf(S) == CHOOSE x \in S : \A y \in S : x <= y
MaxOf(S) == CHOOSE x \in S : \A y \in S : x >= y

\* s[i..] starts with p
MatchAt(p, s, i) == i + Len(p) - 1 <= Len(s) /\ SubSeq(s, i, i + Len(p) - 1) = p

\* str.find from position i: index of the first occurrence of p at or after i,
\* 0 when there is none
FindFrom(p, s, i) ==
  LET hits == {j \in i..(Len(s) - Len(p) + 1) : MatchAt(p, s, j)}
  IN IF hits = {} THEN 0 ELSE MinOf(hits)

\* "p in s"
Contains(p, s) == FindFrom(p, s, 1) # 0

\* str.split(sep) for a one-symbol separator
Split(s, sep) ==
  LET cuts == {i \in 1..Len(s) : s[i] = sep}
      n == Cardinality(cuts)
      \* the position of the k-th separator, 0 for k = 0, Len+1 for k = n+1
      cut(k) == IF k = 0 THEN 0
                ELSE IF k = n + 1 THEN Len(s) + 1
                ELSE CHOOSE i \in cuts : Cardinality({j \in cuts : j < i}) = k - 1
  IN [k \in 1..(n + 1) |-> SubSeq(s, cut(k - 1) + 1, cut(k) - 1)]

\* str.strip()
Strip(s) ==
  LET keep == {i \in 1..Len(s) : s[i] \notin Whitespace}
  IN IF keep = {} THEN <<>> ELSE SubSeq(s, MinOf(keep), MaxOf(keep))

\* str.split() with no argument: the whitespace-delimited tokens
SplitWs(s) ==
  LET starts == {i \in 1..Len(s) : s[i] \notin Whitespace
                                   /\ (i = 1 \/ s[i - 1] \in Whitespace)}
      n == Cardinality(starts)
      start(k) == CHOOSE i \in starts : Cardinality({j \in starts : j < i}) = k - 1
      stop(i) == LET ws == {j \in i..Len(s) : s[j] \in Whitespace}
                 IN IF ws = {} THEN Len(s) ELSE MinOf(ws) - 1
  IN [k \in 1..n |-> SubSeq(s, start(k), stop(start(k)))]

\* str.replace(old, ''): every non-overlapping occurrence, left to right
RECURSIVE Remove(_, _)
Remove(s, old) ==
  LET i == FindFrom(old, s, 1)
  IN IF i = 0 THEN s
     ELSE SubSeq(s, 1, i - 1) \o Remove(SubSeq(s, i + Len(old), Len(s)), old)

\* sep.join(parts)
RECURSIVE Join(_, _)
Join(parts, sep) ==
  IF Len(parts) = 0 THEN <<>>
  ELSE IF Len(parts) = 1 THEN parts[1]
  ELSE parts[1] \o <<sep>> \o Join(Tail(parts), sep)

(***************************************************************************)
(* Numbers.  float() of a decimal token is kept exact: a finite value is   *)
(* (-1)^neg * m / 10^d.  Formatting rounds the exact value, a tie going to *)
(* the even neighbour as it does for a value that binary floating point    *)
(* holds exactly; the inputs drawn below produce no other tie.             *)
(***************************************************************************)
DigitSym == <<"0", "1", "2", "3", "4", "5", "6", "7", "8", "9">>
DigitVal(c) == (CHOOSE n \in 1..10 : DigitSym[n] = c) - 1

RECURSIVE DigitsVal(_)
DigitsVal(ds) ==
  IF Len(ds) = 0 THEN 0
  ELSE 10 * DigitsVal(SubSeq(ds, 1, Len(ds) - 1)) + DigitVal(ds[Len(ds)])

AllDigits(s) == \A i \in 1..Len(s) : s[i] \in Digit

\* str(n) for a natural number
RECURSIVE IntText(_)
IntText(n) ==
  IF n < 10 THEN <<DigitSym[n + 1]>>
  ELSE IntText(n \div 10) \o <<DigitSym[(n % 10) + 1]>>

\* n written with exactly w digits, zero-padded on the left
RECURSIVE PadText(_, _)
PadText(n, w) ==
  IF w = 0 THEN <<>> ELSE PadText(n \div 10, w - 1) \o <<DigitSym[(n % 10) + 1]>>

NanWords == {"nan", "NaN"}
InfWords == {"inf", "Infinity"}

FloatErr == [k |-> "err"]
FloatNan == [k |-> "nan"]
FloatInf(neg) == [k |-> "inf", neg |-> neg]
Fin(neg, m, d) == [k |-> "fin", neg |-> neg, m |-> m, d |-> d]

\* float(text): the value, or FloatErr where float() raises ValueError
ParseFloat(text) ==
  LET t == Strip(text)
      signed == Len(t) > 0 /\ t[1] \in {"+", "-"}
      neg == signed /\ t[1] = "-"
      body == IF signed THEN Tail(t) ELSE t
      dots == {i \in 1..Len(body) : body[i] = "."}
  IN IF Len(body) = 1 /\ body[1] \in NanWords THEN FloatNan
     ELSE IF Len(body) = 1 /\ body[1] \in InfWords THEN FloatInf(neg)
     ELSE IF Cardinality(dots) > 1 THEN FloatErr
     ELSE LET dot == IF dots = {} THEN Len(body) + 1 ELSE MinOf(dots)
              ip == SubSeq(body, 1, dot - 1)
              fp == SubSeq(body, dot + 1, Len(body))
          IN IF Len(ip) + Len(fp) = 0 \/ ~AllDigits(ip) \/ ~AllDigits(fp)
             THEN FloatErr
             ELSE Fin(neg, DigitsVal(ip \o fp), Len(fp))

\* a / b rounded to the nearest integer, ties to even (a >= 0, b > 0)
RoundDiv(a, b) ==
  LET q == a \div b
      r == a % b
  IN IF 2 * r < b THEN q
     ELSE IF 2 * r > b THEN q + 1
     ELSE IF q % 2 = 0 THEN q ELSE q + 1

\* f"{v:.2f}" for v = (-1)^neg * cents / 100
Fixed2Text(neg, cents) ==
  (IF neg THEN <<"-">> ELSE <<>>)
    \o IntText(cents \div 100) \o <<".">> \o PadText(cents % 100, 2)

SignText(neg) == IF neg THEN <<"-">> ELSE <<>>

\* str(int(v)) of a finite value: truncation towards zero
TruncText(x) ==
  LET n == x.m \div Pow10(x.d)
  IN (IF x.neg /\ n > 0 THEN <<"-">> ELSE <<>>) \o IntText(n)

(***************************************************************************)
(* lib/parser.py: ResultParser                                             *)
(***************************************************************************)
\* the first index >= p whose symbol is not whitespace, Len(s) + 1 if none
SkipWs(s, p) ==
  LET stop == {i \in p..Len(s) : s[i] \notin Whitespace}
  IN IF stop = {} THEN Len(s) + 1 ELSE MinOf(stop)

\* the last index of the run of symbols of class C that starts at p (p - 1 if
\* s[p] is not in C)
RunEnd(s, p, C) ==
  LET stop == {i \in p..Len(s) : s[i] \notin C}
  IN IF stop = {} THEN Len(s) ELSE MinOf(stop) - 1

\* the last index of the line that holds position p
LineEnd(s, p) ==
  LET nls == {i \in p..Len(s) : s[i] = NL}
  IN IF nls = {} THEN Len(s) ELSE MinOf(nls) - 1

\* where the regex  label \s* (.+)  matches with the label at i: the span of
\* group 1 as <<from, to>>, or <<>> when it does not match there.  \s* is
\* greedy and also takes newlines; when it runs to the end of the text it
\* gives symbols back until (.+) finds one that is not a newline.
LabelMatchAt(s, label, i) ==
  IF ~MatchAt(label, s, i) THEN <<>>
  ELSE LET p == i + Len(label)
           e == SkipWs(s, p)
           back == {j \in p..Len(s) : s[j] # NL}
       IN IF e <= Len(s) THEN <<e, LineEnd(s, e)>>
          ELSE IF back = {} THEN <<>>
          ELSE <<MaxOf(back), LineEnd(s, MaxOf(back))>>

\* the label looked for at the start of the text only
ExtractLabel_AtStart(s, label) ==
  LET g == LabelMatchAt(s, label, 1)
  IN IF g = <<>> THEN NA ELSE Strip(SubSeq(s, g[1], g[2]))

\* extract_value(content, r'<label>\s*(.+)')
ExtractLabel(s, label) ==
  LET hits == {i \in 1..Len(s) : LabelMatchAt(s, label, i) # <<>>}
  IN IF hits = {} THEN NA
     ELSE LET g == LabelMatchAt(s, label, MinOf(hits))
          IN Strip(SubSeq(s, g[1], g[2]))

\* extract_value(records_line, r'^(\d+)')
ExtractLeadingDigits(s) ==
  LET e == RunEnd(s, 1, Digit)
  IN IF e < 1 THEN NA ELSE Strip(SubSeq(s, 1, e))

\* extract_value(records_line, r'<label>\s*(\d+)<suffix>'), suffix possibly empty
ExtractLabelDigits(s, label, suffix) ==
  LET ok(i) == /\ MatchAt(label, s, i)
               /\ LET d == SkipWs(s, i + Len(label))
                      e == RunEnd(s, d, Digit)
                  IN e >= d /\ MatchAt(suffix, s, e + 1)
      hits == {i \in 1..Len(s) : ok(i)}
  IN IF hits = {} THEN NA
     ELSE LET d == SkipWs(s, MinOf(hits) + Len(label))
          IN Strip(SubSeq(s, d, RunEnd(s, d, Digit)))

SizeUnits == {"bytes", "KB", "MB"}

\* extract_value(records_line, r'Payload:\s*([0-9.]+\s*(?:bytes|KB|MB))')
ExtractPayload(s) ==
  LET label == <<"Payload", ":">>
      unitAt(i) == LET d == SkipWs(s, i + Len(label))
                       e == RunEnd(s, d, Digit \cup {"."})
                   IN IF e >= d THEN SkipWs(s, e + 1) ELSE 0
      ok(i) == /\ MatchAt(label, s, i)
               /\ unitAt(i) \in 1..Len(s)
               /\ s[unitAt(i)] \in SizeUnits
      hits == {i \in 1..Len(s) : ok(i)}
  IN IF hits = {} THEN NA
     ELSE LET i == MinOf(hits)
          IN Strip(SubSeq(s, SkipWs(s, i + Len(label)), unitAt(i)))

\* extract_section without the strip() of the line it returns
ExtractSection_NoStrip(s, header) ==
  LET lines == Split(s, NL)
      hits == {i \in 1..Len(lines) : Contains(header, lines[i]) /\ i + 1 <= Len(lines)}
  IN IF hits = {} THEN <<>> ELSE lines[MinOf(hits) + 1]

\* extract_section(content, header)
ExtractSection(s, header) ==
  LET lines == Split(s, NL)
      hits == {i \in 1..Len(lines) : Contains(header, lines[i]) /\ i + 1 <= Len(lines)}
  IN IF hits = {} THEN <<>> ELSE Strip(lines[MinOf(hits) + 1])

\* the outcome of a call: a returned value or a raised exception
Ret(v) == [kind |-> "ok", val |-> v]
Raise(e) == [kind |-> "raise", exc |-> e]

\* _format_latency with two decimals for every value
FormatLatency_TwoDecimals(value) ==
  IF value = NA THEN value
  ELSE LET x == ParseFloat(value)
       IN IF x.k # "fin" THEN value
          ELSE Fixed2Text(x.neg, RoundDiv(x.m * 100, Pow10(x.d)))

\* _format_latency(value)
FormatLatency(value) ==
  IF value = NA THEN value
  ELSE LET x == ParseFloat(value)
       IN IF x.k # "fin" THEN value
          ELSE IF x.m % Pow10(x.d) = 0 THEN TruncText(x)
          ELSE Fixed2Text(x.neg, RoundDiv(x.m * 100, Pow10(x.d)))

\* the search with a greedy (.+): up to the last ')' of the line
ParenGroup_Greedy(line) ==
  LET close(i) == {j \in (i + 2)..Len(line) :
                     line[j] = ")" /\ \A k \in (i + 1)..(j - 1) : line[k] # NL}
      opens == {i \in 1..Len(line) : line[i] = "(" /\ close(i) # {}}
  IN IF opens = {} THEN <<>>
     ELSE LET i == MinOf(opens)
          IN SubSeq(line, i + 1, MaxOf(close(i)) - 1)

\* re.search(r'\((.+?)\)', line): group 1, or <<>> for no match (group 1 is
\* never empty)
ParenGroup(line) ==
  LET close(i) == {j \in (i + 2)..Len(line) :
                     line[j] = ")" /\ \A k \in (i + 1)..(j - 1) : line[k] # NL}
      opens == {i \in 1..Len(line) : line[i] = "(" /\ close(i) # {}}
  IN IF opens = {} THEN <<>>
     ELSE LET i == MinOf(opens)
          IN SubSeq(line, i + 1, MinOf(close(i)) - 1)

ProducerKeys == {"records", "tps", "mbps", "avg_ms", "max_ms",
                 "p50", "p95", "p99", "p999"}

\* parts[i] in Python's numbering
At(parts, i) == parts[i + 1]

\* tps_raw = parts[1].strip().split()[0] if len(parts) > 1 else 'N/A'
TpsRaw(parts) ==
  IF Len(parts) > 1
  THEN LET toks == SplitWs(Strip(At(parts, 1)))
       IN IF Len(toks) = 0 THEN Raise("IndexError") ELSE Ret(toks[1])
  ELSE Ret(NA)

\* tps with round() in the place of int()
TpsText_Rounded(raw) ==
  IF raw = NA THEN Ret(NA)
  ELSE LET x == ParseFloat(raw)
       IN IF x.k = "err" \/ x.k = "nan" THEN Raise("ValueError")
          ELSE IF x.k = "inf" THEN Raise("OverflowError")
          ELSE Ret(SignText(x.neg) \o IntText(RoundDiv(x.m, Pow10(x.d))))

\* tps = str(int(float(tps_raw))) if tps_raw != 'N/A' else 'N/A'
TpsText(raw) ==
  IF raw = NA THEN Ret(NA)
  ELSE LET x == ParseFloat(raw)
       IN IF x.k = "err" \/ x.k = "nan" THEN Raise("ValueError")
          ELSE IF x.k = "inf" THEN Raise("OverflowError")
          ELSE Ret(TruncText(x))

\* parts[i].strip().replace(suffix, '') if len(parts) > i else 'N/A'
FieldSansSuffix(parts, i, suffix) ==
  IF Len(parts) > i THEN Remove(Strip(At(parts, i)), suffix) ELSE NA

\* ProducerDefaults with the last key forgotten
ProducerDefaults_NoP999 == [key \in ProducerKeys \ {"p999"} |-> NA]

\* p999 with its decimal points kept
P999Text_KeepDots(parts) ==
  FieldSansSuffix(parts, 7, <<" ", "ms", " ", "9", "9", ".", "9", "th">>)

\* p999 = parts[7].strip().replace(' ms 99.9th', '').replace('.', '') if
\* len(parts) > 7 else 'N/A'
P999Text(parts) ==
  Remove(FieldSansSuffix(parts, 7, <<" ", "ms", " ", "9", "9", ".", "9", "th">>), <<".">>)

\* the dict _parse_producer_metrics returns for an empty line
ProducerDefaults == [key \in ProducerKeys |-> NA]

\* _parse_producer_metrics(producer_line)
ParseProducerMetrics(line) ==
  IF line = <<>>
  THEN Ret(ProducerDefaults)
  ELSE LET parts == Split(line, ",")
           raw == TpsRaw(parts)
           tps == IF raw.kind = "raise" THEN raw ELSE TpsText(raw.val)
           grp == ParenGroup(line)
       IN IF tps.kind = "raise" THEN tps
          ELSE Ret([key \in ProducerKeys |->
            CASE key = "records" ->
                   Remove(Strip(At(parts, 0)), <<" ", "records", " ", "sent">>)
              [] key = "tps" -> tps.val
              [] key = "mbps" -> IF grp = <<>> THEN NA ELSE grp
              [] key = "avg_ms" ->
                   IF Len(parts) > 2
                   THEN FormatLatency(FieldSansSuffix(parts, 2,
                          <<" ", "ms", " ", "avg", " ", "latency">>))
                   ELSE NA
              [] key = "max_ms" ->
                   IF Len(parts) > 3
                   THEN FormatLatency(FieldSansSuffix(parts, 3,
                          <<" ", "ms", " ", "max", " ", "latency">>))
                   ELSE NA
              [] key = "p50" -> FieldSansSuffix(parts, 4, <<" ", "ms", " ", "5", "0", "th">>)
              [] key = "p95" -> FieldSansSuffix(parts, 5, <<" ", "ms", " ", "9", "5", "th">>)
              [] key = "p99" -> FieldSansSuffix(parts, 6, <<" ", "ms", " ", "9", "9", "th">>)
              [] key = "p999" -> P999Text(parts)])

\* f"{n:,}" for a natural number: digit groups of three
RECURSIVE GroupText(_)
GroupText(n) ==
  IF n < 1000 THEN IntText(n)
  ELSE GroupText(n \div 1000) \o <<",">> \o PadText(n % 1000, 3)

\* round(100 * x * num / den) for a finite x >= 0, the powers of ten cancelled
\* before multiplying
ScaledCents(x, num, den) ==
  IF x.d >= 2 THEN RoundDiv(x.m * num, den * Pow10(x.d - 2))
  ELSE RoundDiv(x.m * num * Pow10(2 - x.d), den)

\* f"{x * num / den:.2f}" for a float x that is not an error
FixedScaled(x, num, den) ==
  IF x.k = "nan" THEN <<"nan">>
  ELSE IF x.k = "inf" THEN SignText(x.neg) \o <<"inf">>
  ELSE Fixed2Text(x.neg, ScaledCents(x, num, den))

\* f"{x:,.2f}"
GroupedFixed(x) ==
  IF x.k = "nan" THEN <<"nan">>
  ELSE IF x.k = "inf" THEN SignText(x.neg) \o <<"inf">>
  ELSE LET cents == ScaledCents(x, 1, 1)
       IN SignText(x.neg) \o GroupText(cents \div 100) \o <<".">>
            \o PadText(cents % 100, 2)

\* f"{x * 1024 * 1024:.0f}"
BytesText(x) ==
  IF x.k = "nan" THEN <<"nan">>
  ELSE IF x.k = "inf" THEN SignText(x.neg) \o <<"inf">>
  ELSE SignText(x.neg) \o IntText(RoundDiv(x.m * 1048576, Pow10(x.d)))

\* x < num / den for a float x that is not an error (den a power of ten)
LessThan(x, num, den) ==
  IF x.k = "nan" THEN FALSE
  ELSE IF x.k = "inf" THEN x.neg
  ELSE x.neg \/ x.m * den < num * Pow10(x.d)

\* _format_number(value)
FormatNumber(value) ==
  IF value = NA THEN value
  ELSE LET x == ParseFloat(value)
       IN IF x.k # "fin" THEN value
          ELSE IF x.m % Pow10(x.d) = 0
          THEN SignText(x.neg /\ x.m > 0) \o GroupText(x.m \div Pow10(x.d))
          ELSE GroupedFixed(x)

\* format_number with two decimals whatever the value
UtilsFormatNumber_TwoDecimals(value) ==
  IF value = NA THEN value
  ELSE LET x == ParseFloat(value)
       IN IF x.k # "fin" THEN value ELSE GroupedFixed(x)

\* utils.format_number(value): 'N/A' as it is; an integral float as
\* f"{int(num):,}", any other as f"{num:,.2f}"; the text itself when float()
\* or int() raises
UtilsFormatNumber(value) ==
  IF value = NA THEN value
  ELSE LET num == ParseFloat(value)
       IN IF num.k = "err" \/ num.k = "nan" \/ num.k = "inf" THEN value
          ELSE IF num.m % Pow10(num.d) = 0
          THEN SignText(num.neg /\ num.m > 0) \o GroupText(num.m \div Pow10(num.d))
          ELSE GroupedFixed(num)

\* _format_mb_size(value)
FormatMbSize(value) ==
  IF value = NA THEN value
  ELSE LET x == ParseFloat(value)
       IN IF x.k = "err" THEN value
          ELSE IF LessThan(x, 1024, 1) THEN GroupedFixed(x) \o <<" ", "MB">>
          ELSE IF LessThan(x, 1048576, 1) THEN FixedScaled(x, 1, 1024) \o <<" ", "GB">>
          ELSE FixedScaled(x, 1, 1048576) \o <<" ", "TB">>

\* datetime.strptime(text, '%Y-%m-%d %H:%M:%S:%f'): one or two digits for the
\* month, day, hour, minute and second, one to six for the fraction, which is
\* padded with zeros on the right to microseconds
IsLeap(y) == (y % 4 = 0 /\ y % 100 # 0) \/ y % 400 = 0
DaysInMonth(y, m) ==
  IF m = 2 THEN (IF IsLeap(y) THEN 29 ELSE 28)
  ELSE IF m \in {4, 6, 9, 11} THEN 30 ELSE 31
RECURSIVE DaysBeforeMonth(_, _)
DaysBeforeMonth(y, m) ==
  IF m = 1 THEN 0 ELSE DaysBeforeMonth(y, m - 1) + DaysInMonth(y, m - 1)
Ordinal(y, m, d) ==
  365 * (y - 1) + ((y - 1) \div 4) - ((y - 1) \div 100) + ((y - 1) \div 400)
    + DaysBeforeMonth(y, m) + d

NoTime == [ok |-> FALSE]

\* a field of one or two digits that starts at p and is followed by the symbol
\* sep: <<value, index after sep>>, or <<>>
TwoDigitField(t, p, sep) ==
  LET e == RunEnd(t, p, Digit)
  IN IF e >= p /\ e - p + 1 <= 2 /\ e + 1 <= Len(t) /\ t[e + 1] = sep
     THEN <<DigitsVal(SubSeq(t, p, e)), e + 2>>
     ELSE <<>>

Strptime(t) ==
  IF ~(Len(t) >= 5 /\ AllDigits(SubSeq(t, 1, 4)) /\ t[5] = "-") THEN NoTime
  ELSE
  LET y == DigitsVal(SubSeq(t, 1, 4))
      mo == TwoDigitField(t, 6, "-")
  IN IF mo = <<>> THEN NoTime
     ELSE
     LET \* the day: digits, or a space and one digit; then \s+
         sp == mo[2] + 1 <= Len(t) /\ t[mo[2]] = " " /\ t[mo[2] + 1] \in Digit \ {"0"}
         ds == IF sp THEN mo[2] + 1 ELSE mo[2]
         de == RunEnd(t, ds, Digit)
         hs == SkipWs(t, de + 1)
     IN IF ~(de >= ds /\ de - ds + 1 <= (IF sp THEN 1 ELSE 2) /\ hs > de + 1) THEN NoTime
        ELSE
        LET d == DigitsVal(SubSeq(t, ds, de))
            h == TwoDigitField(t, hs, ":")
        IN IF h = <<>> THEN NoTime
           ELSE
           LET mi == TwoDigitField(t, h[2], ":")
           IN IF mi = <<>> THEN NoTime
              ELSE
              LET se == TwoDigitField(t, mi[2], ":")
              IN IF se = <<>> THEN NoTime
                 ELSE
                 LET f == SubSeq(t, se[2], Len(t))
                 IN IF /\ Len(f) \in 1..6 /\ AllDigits(f)
                       /\ y >= 1 /\ mo[1] \in 1..12 /\ d >= 1
                       /\ d <= DaysInMonth(y, mo[1])
                       /\ h[1] <= 23 /\ mi[1] <= 59 /\ se[1] <= 59
                    THEN [ok |-> TRUE,
                          day |-> Ordinal(y, mo[1], d),
                          sec |-> 3600 * h[1] + 60 * mi[1] + se[1],
                          us |-> DigitsVal(f) * Pow10(6 - Len(f))]
                    ELSE NoTime

\* f"{(end - start).total_seconds():.2f}"
SecondsText(a, b) ==
  LET s0 == 86400 * (b.day - a.day) + (b.sec - a.sec)
      u0 == b.us - a.us
      s == IF u0 < 0 THEN s0 - 1 ELSE s0
      u == IF u0 < 0 THEN u0 + 1000000 ELSE u0
  IN IF s >= 0 THEN Fixed2Text(FALSE, 100 * s + RoundDiv(u, 10000))
     ELSE IF u = 0 THEN Fixed2Text(TRUE, 100 * (0 - s))
     ELSE Fixed2Text(TRUE, 100 * (0 - s - 1) + RoundDiv(1000000 - u, 10000))

\* _calculate_duration with the operands of the subtraction exchanged
CalculateDuration_StartMinusEnd(start, end) ==
  IF start = NA \/ end = NA THEN NA
  ELSE LET a == Strptime(start)
           b == Strptime(end)
       IN IF a.ok /\ b.ok THEN SecondsText(b, a) ELSE NA

\* _calculate_duration(start_str, end_str)
CalculateDuration(start, end) ==
  IF start = NA \/ end = NA THEN NA
  ELSE LET a == Strptime(start)
           b == Strptime(end)
       IN IF a.ok /\ b.ok THEN SecondsText(a, b) ELSE NA

ConsumerKeys == {"consumer_start", "consumer_end", "consumer_duration",
                 "consumer_mb", "consumer_mbps", "consumer_msgs",
                 "consumer_msgps", "consumer_rebalance_ms", "consumer_fetch_ms",
                 "consumer_fetch_mbps", "consumer_fetch_msgps"}

\* parts[i].strip() if len(parts) > i else 'N/A'
FieldOrNA(parts, i) == IF Len(parts) > i THEN Strip(At(parts, i)) ELSE NA

\* the data volume without the bytes branch
ConsumerMb_NoBytes(raw) ==
  IF raw = NA THEN NA
  ELSE LET x == ParseFloat(raw)
       IN IF x.k = "err" THEN raw
          ELSE IF LessThan(x, 1, 1) THEN FixedScaled(x, 1024, 1) \o <<" ", "KB">>
          ELSE FormatMbSize(raw)

\* the data volume: bytes below 0.001 MB, KB below 1 MB, else _format_mb_size
ConsumerMb(raw) ==
  IF raw = NA THEN NA
  ELSE LET x == ParseFloat(raw)
       IN IF x.k = "err" THEN raw
          ELSE IF LessThan(x, 1, 1000) THEN BytesText(x) \o <<" ", "bytes">>
          ELSE IF LessThan(x, 1, 1) THEN FixedScaled(x, 1024, 1) \o <<" ", "KB">>
          ELSE FormatMbSize(raw)

\* a data rate given to _format_number whatever its size
ConsumerRate_NoKilobytes(raw) ==
  IF raw = NA THEN NA
  ELSE IF ParseFloat(raw).k = "err" THEN raw
  ELSE FormatNumber(raw)

\* a data rate: KB/s below 0.01 MB/s, else _format_number
ConsumerRate(raw) ==
  IF raw = NA THEN NA
  ELSE LET x == ParseFloat(raw)
       IN IF x.k = "err" THEN raw
          ELSE IF LessThan(x, 1, 100) THEN FixedScaled(x, 1024, 1) \o <<" ", "KB/s">>
          ELSE FormatNumber(raw)

\* a message rate passed through int() whatever its size
ConsumerMsgRate_Truncated(raw) ==
  IF raw = NA THEN Ret(NA)
  ELSE LET x == ParseFloat(raw)
       IN IF x.k = "err" \/ x.k = "nan" THEN Ret(NA)
          ELSE IF x.k = "inf" THEN Raise("OverflowError")
          ELSE Ret(TruncText(x))

\* a message rate: two decimals below 1, else int(); only ValueError is caught
ConsumerMsgRate(raw) ==
  IF raw = NA THEN Ret(NA)
  ELSE LET x == ParseFloat(raw)
       IN IF x.k = "err" THEN Ret(NA)
          ELSE IF LessThan(x, 1, 1) THEN Ret(FixedScaled(x, 1, 1))
          ELSE IF x.k = "nan" THEN Ret(NA)
          ELSE IF x.k = "inf" THEN Raise("OverflowError")
          ELSE Ret(TruncText(x))

\* the dict _parse_consumer_metrics returns for an empty line
ConsumerDefaults == [key \in ConsumerKeys |-> NA]

\* the dict _parse_consumer_metrics returns, or the exception of a message
\* rate (msgps is computed before fetch)
ConsumerResult(start, end, duration, mb, mbps, msgs, msgps, rebalance, fetch_ms, fetch_mbps, fetch) ==
  IF msgps.kind = "raise" THEN msgps
  ELSE IF fetch.kind = "raise" THEN fetch
  ELSE Ret([key \in ConsumerKeys |->
    CASE key = "consumer_start" -> start
      [] key = "consumer_end" -> end
      [] key = "consumer_duration" -> duration
      [] key = "consumer_mb" -> mb
      [] key = "consumer_mbps" -> mbps
      [] key = "consumer_msgs" -> msgs
      [] key = "consumer_msgps" -> msgps.val
      [] key = "consumer_rebalance_ms" -> rebalance
      [] key = "consumer_fetch_ms" -> fetch_ms
      [] key = "consumer_fetch_mbps" -> fetch_mbps
      [] key = "consumer_fetch_msgps" -> fetch.val])

\* the fields of the consumer line, by position
ParseConsumerParts(parts) ==
  ConsumerResult(FieldOrNA(parts, 0),
                 FieldOrNA(parts, 1),
                 CalculateDuration(FieldOrNA(parts, 0), FieldOrNA(parts, 1)),
                 ConsumerMb(FieldOrNA(parts, 2)),
                 ConsumerRate(FieldOrNA(parts, 3)),
                 FormatNumber(FieldOrNA(parts, 4)),
                 ConsumerMsgRate(FieldOrNA(parts, 5)),
                 FormatNumber(FieldOrNA(parts, 6)),
                 FormatNumber(FieldOrNA(parts, 7)),
                 ConsumerRate(FieldOrNA(parts, 8)),
                 ConsumerMsgRate(FieldOrNA(parts, 9)))

\* _parse_consumer_metrics(consumer_line)
ParseConsumerMetrics(line) ==
  IF line = <<>> THEN Ret(ConsumerDefaults) ELSE ParseConsumerParts(Split(line, ","))

BasicKeys == {"topic", "bootstrap", "records_line", "producer_config",
              "num_records", "target_tps", "payload_size", "duration"}

\* the identity and plan fields of parse_summary
BasicInfo(text) ==
  LET records_line == ExtractLabel(text, <<"Records", ":">>)
  IN [key \in BasicKeys |->
       CASE key = "topic" -> ExtractLabel(text, <<"Topic", ":">>)
         [] key = "bootstrap" -> ExtractLabel(text, <<"Bootstrap", ":">>)
         [] key = "records_line" -> records_line
         [] key = "producer_config" -> ExtractLabel(text, <<"Producer", ":">>)
         [] key = "num_records" -> ExtractLeadingDigits(records_line)
         [] key = "target_tps" -> ExtractLabelDigits(records_line, <<"TPS", ":">>, <<>>)
         [] key = "payload_size" -> ExtractPayload(records_line)
         [] key = "duration" ->
              ExtractLabelDigits(records_line, <<"Duration", ":">>, <<"s">>)]

ProducerHeader == <<"Producer", " ", "Summary", ":">>
ConsumerHeader == <<"Consumer", " ", "Summary", ":">>

\* {**a, **b}: the keys of both, b's value where both have the key
Merge(a, b) ==
  [key \in DOMAIN a \cup DOMAIN b |-> IF key \in DOMAIN b THEN b[key] ELSE a[key]]

\* the dict parse_summary returns, or the exception a sub-parser raised (the
\* producer line is parsed before the consumer line)
SummaryResult(basic, producer, consumer) ==
  IF producer.kind = "raise" THEN producer
  ELSE IF consumer.kind = "raise" THEN consumer
  ELSE Ret(Merge(Merge(basic, producer.val), consumer.val))

\* parse_summary(content)
ParseSummary(text) ==
  SummaryResult(BasicInfo(text),
                ParseProducerMetrics(ExtractSection(text, ProducerHeader)),
                ParseConsumerMetrics(ExtractSection(text, ConsumerHeader)))

(***************************************************************************)
(* The summary documents the parser is run on.                             *)
(***************************************************************************)
Sp == <<" ">>

\* m / 10^d written with d decimals
Dec(m, d) ==
  IntText(m \div Pow10(d))
    \o (IF d = 0 THEN <<>> ELSE <<".">> \o PadText(m % Pow10(d), d))

IntParts == {0, 1, 833}
FracParts(d) == IF d = 0 THEN {0} ELSE {0, Pow10(d) \div 3, Pow10(d) \div 2, Pow10(d) - 1}

\* numeric tokens as <<text, m, d>>
NumCases ==
  {<<Dec(i * Pow10(d) + f, d), i * Pow10(d) + f, d>> :
     <<i, d, f>> \in {t \in IntParts \X (0..MaxFrac) \X (0..(Pow10(MaxFrac) - 1)) :
                        t[3] \in FracParts(t[2])}}
NumTokens == {c[1] : c \in NumCases}

\* more numeric tokens, as <<m, d>> for m / 10^d: rates and volumes around the
\* points where the consumer formatting changes (0.001, 0.01, 1, 1024, 1024^2)
ExtraValues ==
  { <<42, 2>>, <<19, 1>>, <<25, 1>>, <<4, 3>>, <<9, 3>>, <<1, 3>>, <<5, 4>>, <<9, 4>>,
    <<99, 5>>, <<4, 6>>, <<999, 3>>, <<1, 2>>, <<2, 2>>, <<1023, 0>>, <<1024, 0>>, <<1536, 0>>,
    <<12345, 1>>, <<1048575, 0>>, <<1048576, 0>>, <<1572864, 0>>, <<1234567, 0>> }
ExtraCases == {<<Dec(v[1], v[2]), v[1], v[2]>> : v \in ExtraValues}
ConsumerCases == NumCases \cup ExtraCases

\* tokens float() rejects, and the ones it reads as not-a-number or infinite
MalformedTokens == {<<"abc">>, <<"1", ".", "2", ".", "3">>, <<"-">>}
SpecialTokens == {<<"NaN">>, <<"Infinity">>, <<"-", "Infinity">>}
BadTokens == MalformedTokens \cup SpecialTokens

\* the header block run() writes
HeadLines ==
  << <<"===", " ", "Kafka", " ", "Performance", " ", "Test", " ", "===">>,
     <<"Topic", ":", " ", "perf">>,
     <<"Bootstrap", ":", " ", "localhost", ":", "9", "0", "9", "2">>,
     <<"Records", ":", " ", "1", "0", "0", "0", " ", "|", " ", "TPS", ":", " ",
       "1", "0", "0", " ", "|", " ", "Payload", ":", " ", "1", "0", "2", "4", " ",
       "bytes", " ", "|", " ", "Duration", ":", " ", "1", "0", "s">>,
     <<"Producer", ":", " ", "acks=", "1">> >>

\* the eight fields of a producer line as kafka-producer-perf-test prints
\* them, from the eight tokens toks
ProducerFields(toks) ==
  << toks[1] \o <<" ", "records", " ", "sent">>,
     Sp \o toks[2] \o <<" ", "records/sec">>,
     Sp \o toks[3] \o <<" ", "ms", " ", "avg", " ", "latency">>,
     Sp \o toks[4] \o <<" ", "ms", " ", "max", " ", "latency">>,
     Sp \o toks[5] \o <<" ", "ms", " ", "5", "0", "th">>,
     Sp \o toks[6] \o <<" ", "ms", " ", "9", "5", "th">>,
     Sp \o toks[7] \o <<" ", "ms", " ", "9", "9", "th">>,
     Sp \o toks[8] \o <<" ", "ms", " ", "9", "9", ".", "9", "th">> >>

BaseTokens ==
  << <<"1", "0", "0", "0">>, <<"8", "3", "3", ".", "3", "3">>,
     <<"7", ".", "0", "0">>, <<"3", "5", "6", ".", "0", "0">>,
     <<"5">>, <<"1", "2">>, <<"4", "5">>, <<"9", "9", ".", "9">> >>
BaseRate == <<"0", ".", "8", "5", " ", "MB/sec">>
OtherRate == <<"1", "2", ".", "3", "4", " ", "MB/sec">>

\* toks with the token of field j (Python numbering) replaced
WithToken(toks, j, tok) == [i \in 1..Len(toks) |-> IF i = j + 1 THEN tok ELSE toks[i]]

\* fields with the text extra appended to field j (Python numbering); j = -1
\* appends nothing
AppendTo(fields, j, extra) ==
  [i \in 1..Len(fields) |-> IF i = j + 1 THEN fields[i] \o extra ELSE fields[i]]

Parens(t) == <<" ", "(">> \o t \o <<")">>

\* the first k fields of the producer line with tokens toks and the group
\* (rate) at the end of field j
ProducerLine(k, toks, j, rate) ==
  Join(SubSeq(AppendTo(ProducerFields(toks), j, Parens(rate)), 1, k), ",")

BaseProducerLine == ProducerLine(8, BaseTokens, 1, BaseRate)

\* a timestamp as kafka-consumer-perf-test prints it: yyyy-MM-dd HH:mm:ss:SSS.
\* Day n of the model's calendar is 2026-02-28 for n = 0 and 2026-03-n after it.
Clocks == {<<15, 1, 0>>, <<15, 1, 10>>, <<23, 59, 59>>}
Millis == {0, 500, 996}
TimePoints == (0..MaxDaySpan) \X Clocks \X Millis

MkTs(pt) ==
  <<"2", "0", "2", "6", "-">>
    \o (IF pt[1] = 0 THEN <<"0", "2", "-", "2", "8">>
        ELSE <<"0", "3", "-">> \o PadText(pt[1], 2))
    \o Sp \o PadText(pt[2][1], 2) \o <<":">> \o PadText(pt[2][2], 2) \o <<":">>
    \o PadText(pt[2][3], 2) \o <<":">> \o PadText(pt[3], 3)

\* milliseconds from the start of day 0 to the time point
MillisOf(pt) ==
  1000 * (86400 * pt[1] + 3600 * pt[2][1] + 60 * pt[2][2] + pt[2][3]) + pt[3]

SpecStart == <<0, <<15, 1, 0>>, 0>>
SpecEnd == <<0, <<15, 1, 10>>, 500>>

\* texts that are no timestamp: a worker id, a date alone, a '.' before the
\* milliseconds, the 30th of February, hour 24, the empty field
BadTimestamps ==
  { <<"0">>,
    <<"consumer", "-", "1">>,
    <<"2", "0", "2", "6", "-", "0", "2", "-", "2", "8">>,
    <<"2", "0", "2", "6", "-", "0", "2", "-", "2", "8", " ", "1", "5", ":", "0", "1",
      ":", "1", "0", ".", "5", "0", "0">>,
    <<"2", "0", "2", "6", "-", "0", "2", "-", "3", "0", " ", "1", "5", ":", "0", "1",
      ":", "1", "0", ":", "5", "0", "0">>,
    <<"2", "0", "2", "6", "-", "0", "2", "-", "2", "8", " ", "2", "4", ":", "0", "1",
      ":", "1", "0", ":", "5", "0", "0">>,
    <<>> }
WorkerIds == {<<"0">>, <<"consumer", "-", "1">>}

\* the ten fields of a consumer line; field 1 is the end time in the aggregate
\* layout and the worker id in the detailed-stats layout
ConsumerFields(f0, f1) ==
  << f0,
     Sp \o f1,
     <<" ", "0", ".", "9", "5">>,
     <<" ", "0", ".", "0", "9">>,
     <<" ", "1", "0", "0", "0">>,
     <<" ", "9", "5", ".", "2", "4">>,
     <<" ", "3", "5", "0", "0">>,
     <<" ", "7", "0", "0", "0">>,
     <<" ", "0", ".", "1", "4">>,
     <<" ", "1", "4", "2", ".", "8", "5">> >>

\* fields with field j (Python numbering) replaced by a space and the token
WithField(fields, j, tok) ==
  [i \in 1..Len(fields) |-> IF i = j + 1 THEN Sp \o tok ELSE fields[i]]

BaseConsumerFields == ConsumerFields(MkTs(SpecStart), MkTs(SpecEnd))
BaseConsumerLine == Join(BaseConsumerFields, ",")

\* a section of the document: the header and the line after it
SectionKinds == {"none", "blank", "spaces", "last"}
Section(header, kind, line) ==
  CASE kind = "line" -> <<header, line>>
    [] kind = "blank" -> <<header, <<>> >>
    [] kind = "spaces" -> <<header, <<" ", " ">> >>
    [] kind = "last" -> <<header>>
    [] kind = "none" -> <<>>

\* the document: the head, then each section after an empty line; it ends with
\* a newline unless its last line is a header (atEnd)
Doc(head, first, second, atEnd) ==
  Join(head
         \o (IF first = <<>> THEN <<>> ELSE << <<>> >> \o first)
         \o (IF second = <<>> THEN <<>> ELSE << <<>> >> \o second)
         \o (IF atEnd THEN <<>> ELSE << <<>> >>), NL)

PSec(line) == Section(ProducerHeader, "line", line)
CSec(line) == Section(ConsumerHeader, "line", line)

\* producer lines: every token in the tps field; each field count, also with
\* an empty last field; the group in each field, twice, or nowhere; a
\* malformed token in each numeric field
TpsTokens == NumTokens \cup BadTokens \cup {NA}
TpsLines == {ProducerLine(8, WithToken(BaseTokens, 1, t), 1, BaseRate) : t \in TpsTokens}
ShortProducerLines ==
  {ProducerLine(k, BaseTokens, 1, BaseRate) : k \in 1..8}
    \cup {ProducerLine(k, BaseTokens, 1, BaseRate) \o <<",">> : k \in 1..7}
    \cup {ProducerLine(k, BaseTokens, 1, BaseRate) \o <<",", " ">> : k \in 1..7}
GroupPlaces == {<<k, j>> \in (1..8) \X (-1..7) : j < k}
GroupLines ==
  {ProducerLine(p[1], BaseTokens, p[2], r) : p \in GroupPlaces, r \in {BaseRate, OtherRate}}
TwoGroupLines ==
  {Join(SubSeq(AppendTo(AppendTo(ProducerFields(BaseTokens), p[2], Parens(BaseRate)),
                        7, Parens(OtherRate)), 1, 8), ",") :
     p \in {q \in GroupPlaces : q[1] = 8 /\ q[2] >= 0}}
MalformedProducerLines ==
  {ProducerLine(8, WithToken(BaseTokens, j, t), 1, BaseRate) :
     j \in 1..7, t \in MalformedTokens}
\* a numeric token, or one float() reads as not-a-number or infinite, in a
\* latency field (2, 3) or a percentile field (4 to 7)
LatencyTokens == NumTokens \cup SpecialTokens \cup {<<"5", ".", "0", "0">>}
LatencyLines ==
  {ProducerLine(8, WithToken(BaseTokens, j, t), 1, BaseRate) :
     j \in 2..7, t \in LatencyTokens}
\* the full line and a ninth field
NineFieldLine == BaseProducerLine \o <<",", " ", "1", ".", "5", " ", "ms", " ", "max">>
ProducerLines ==
  TpsLines \cup ShortProducerLines \cup GroupLines \cup TwoGroupLines
    \cup MalformedProducerLines \cup LatencyLines \cup {NineFieldLine}

\* consumer lines: each field count; every pair of timestamps, good and bad,
\* and a line that stops after the start time; a worker id in field 1; every
\* token in each numeric field
TimeTexts == {MkTs(pt) : pt \in TimePoints} \cup BadTimestamps \cup {NA}
ShortConsumerLines ==
  {Join(SubSeq(BaseConsumerFields, 1, k), ",") : k \in 1..10}
    \cup {Join(SubSeq(BaseConsumerFields, 1, k), ",") \o <<",">> : k \in 1..9}
TimeLines ==
  {Join(ConsumerFields(a, b), ",") : a \in TimeTexts, b \in TimeTexts}
    \cup {a : a \in TimeTexts \ {<<>>}}
ConsumerTokens == {c[1] : c \in ConsumerCases} \cup BadTokens \cup {NA}
TokenLines ==
  {Join(WithField(BaseConsumerFields, j, t), ",") : j \in 2..9, t \in ConsumerTokens}
ConsumerLines == ShortConsumerLines \cup TimeLines \cup TokenLines

\* a consumer line on which _parse_consumer_metrics raises, and one of three
\* fields
RaisingConsumerLine == Join(WithField(BaseConsumerFields, 5, <<"Infinity">>), ",")
ThreeFieldConsumerLine == Join(SubSeq(BaseConsumerFields, 1, 3), ",")

\* documents that vary the producer line, the consumer line, and the shape:
\* with or without the head, each section present, cut short or absent, in
\* either order
Shapes ==
  {sh \in [head : BOOLEAN, pk : SectionKinds \cup {"line"},
           ck : SectionKinds \cup {"line"}, pFirst : BOOLEAN,
           cline : {BaseConsumerLine, RaisingConsumerLine, ThreeFieldConsumerLine}] :
     /\ (sh.pk = "last") => (~sh.pFirst \/ sh.ck = "none")
     /\ (sh.ck = "last") => (sh.pFirst \/ sh.pk = "none")}
ShapeDoc(sh) ==
  LET psec == Section(ProducerHeader, sh.pk, BaseProducerLine)
      csec == Section(ConsumerHeader, sh.ck, sh.cline)
  IN Doc(IF sh.head THEN HeadLines ELSE <<>>,
         IF sh.pFirst THEN psec ELSE csec,
         IF sh.pFirst THEN csec ELSE psec,
         sh.pk = "last" \/ sh.ck = "last")

ProducerDoc(p) == Doc(HeadLines, PSec(p), CSec(BaseConsumerLine), FALSE)
ConsumerDoc(c) == Doc(HeadLines, PSec(BaseProducerLine), CSec(c), FALSE)

\* documents that vary one labelled line of the head: the label alone, the
\* label and blanks, no such line, the line and a second one with the label,
\* the label after other text; and heads that end with the label
LabelNames == <<"Topic", "Bootstrap", "Records", "Producer">>
LabelOf(k) == <<LabelNames[k], ":">>
HeadVariants == {"bare", "blank", "absent", "twice", "inline"}
LastVariants == {"bare", "blank"}
VariantLines(k, v) ==
  CASE v = "bare" -> << LabelOf(k) >>
    [] v = "blank" -> << LabelOf(k) \o <<" ", " ">> >>
    [] v = "absent" -> << >>
    [] v = "twice" -> << HeadLines[k + 1], LabelOf(k) \o <<" ", "other">> >>
    [] v = "inline" -> << <<"the", " ">> \o HeadLines[k + 1] >>
VariantHead(k, v) ==
  SubSeq(HeadLines, 1, k) \o VariantLines(k, v) \o SubSeq(HeadLines, k + 2, Len(HeadLines))
LabelDoc(k, v) ==
  Doc(VariantHead(k, v), PSec(BaseProducerLine), CSec(BaseConsumerLine), FALSE)
LabelLastDoc(k, v) == Doc(SubSeq(HeadLines, 1, k) \o VariantLines(k, v), <<>>, <<>>, TRUE)
LabelDocs ==
  {LabelDoc(k, v) : k \in 1..Len(LabelNames), v \in HeadVariants}
    \cup {LabelLastDoc(k, v) : k \in 1..Len(LabelNames), v \in LastVariants}

\* documents made of the four labelled lines and the two section blocks, in
\* every order
OrderUnits ==
  << <<HeadLines[2]>>, <<HeadLines[3]>>, <<HeadLines[4]>>, <<HeadLines[5]>>,
     <<ProducerHeader, BaseProducerLine>>, <<ConsumerHeader, BaseConsumerLine>> >>
Orders == {p \in [1..Len(OrderUnits) -> 1..Len(OrderUnits)] : \A i, j \in DOMAIN p : p[i] = p[j] => i = j}
RECURSIVE Flatten(_)
Flatten(units) == IF units = <<>> THEN <<>> ELSE Head(units) \o Flatten(Tail(units))
OrderDoc(p) == Join(Flatten([i \in 1..Len(OrderUnits) |-> OrderUnits[p[i]]]), NL) \o <<NL>>
OrderDocs == {OrderDoc(p) : p \in Orders}

Documents ==
  {ProducerDoc(p) : p \in ProducerLines}
    \cup {ConsumerDoc(c) : c \in ConsumerLines}
    \cup {ShapeDoc(sh) : sh \in Shapes}
    \cup LabelDocs
    \cup OrderDocs
    \cup {<<>>}

(***************************************************************************)
(* The parser's state machine: a document is given, parse_summary runs and *)
(* either returns the model or raises.                                     *)
(***************************************************************************)
NoResult == [kind |-> "none"]

ParserIdle == content = <<>> /\ pc = "idle" /\ result = NoResult
ReportIdle == extracted = <<>> /\ report = <<>> /\ html = <<>>
RunIdle ==
  /\ rpc = "idle" /\ cfg = <<>> /\ prodExit = 0 /\ consExit = 0
  /\ prodOut = <<>> /\ consOut = <<>> /\ summary = <<>> /\ files = {}
  /\ temps = {} /\ events = <<>>

Init ==
  /\ content \in Documents
  /\ pc = "start"
  /\ result = NoResult
  /\ RunIdle
  /\ ReportIdle

\* parser.parse_summary(content)
Parse ==
  /\ pc = "start"
  /\ result' = ParseSummary(content)
  /\ pc' = IF result'.kind = "ok" THEN "returned" ELSE "raised"
  /\ UNCHANGED <<content, runVars, reportVars>>

Next == Parse

Spec == Init /\ [][Next]_vars

(***************************************************************************)
(* lib/reporter.py: TextReporter.generate(metrics), given the model that    *)
(* parse_summary returned.  The report is text; its frame, rules and icons  *)
(* are one symbol each.                                                     *)
(***************************************************************************)
Pad(n) == [i \in 1..n |-> " "]

\* a missing value shown as an empty text
Get_BlankForSentinel(metrics, key) ==
  IF key \in DOMAIN metrics /\ metrics[key] # NA THEN metrics[key] ELSE <<>>

\* metrics.get(key, 'N/A')
Get(metrics, key) == IF key \in DOMAIN metrics THEN metrics[key] ELSE NA

\* the frame, the configuration block and the producer block
ReportHead(metrics) ==
  << <<>>,
     <<"BoxTop">>,
     <<"BoxSide", " ", "Kafka", " ", "Performance", " ", "Report", " ", "(", "CLI", ")", " ",
       "BoxSide">>,
     <<"BoxBottom">>,
     <<>>,
     <<"ChartIcon", " ", "Test", " ", "Configuration">>,
     <<"Rule">>,
     <<"Topic", ":">> \o Pad(8) \o Get(metrics, "topic"),
     <<"Bootstrap", ":">> \o Pad(4) \o Get(metrics, "bootstrap"),
     <<"Records", ":">> \o Pad(6) \o Get(metrics, "records_line"),
     <<>>,
     <<"RocketIcon", " ", "Producer", " ", "Results", " ", "(", "TPS", " ", "is", " ",
       "most", " ", "important", ")">>,
     <<"Rule">>,
     <<"TPS", ":">> \o Pad(10) \o Get(metrics, "tps") \o <<" ", "msg/s", " ", "StarIcon">>,
     <<"Throughput", ":">> \o Pad(3) \o Get(metrics, "mbps"),
     <<"Records", " ", "Sent", ":">> \o Pad(1) \o Get(metrics, "records"),
     <<"Latency", " ", "Avg", ":">> \o Pad(2) \o Get(metrics, "avg_ms") \o <<" ", "ms">>,
     <<"Latency", " ", "Max", ":">> \o Pad(2) \o Get(metrics, "max_ms") \o <<" ", "ms">>,
     <<"P50/P95/P99", ":">> \o Pad(2) \o Get(metrics, "p50") \o <<" ", "/", " ">>
       \o Get(metrics, "p95") \o <<" ", "/", " ">> \o Get(metrics, "p99") \o <<" ", "ms">>,
     <<"P99.9", ":">> \o Pad(8) \o Get(metrics, "p999") \o <<" ", "ms">> >>

\* the consumer block
ReportConsumer(metrics) ==
  << <<>>,
     <<"InboxIcon", " ", "Consumer", " ", "Results">>,
     <<"Rule">>,
     <<"Window", ":">> \o Pad(7) \o Get(metrics, "consumer_start") \o <<" ", "Arrow", " ">>
       \o Get(metrics, "consumer_end"),
     <<"Duration", ":">> \o Pad(5) \o Get(metrics, "consumer_duration")
       \o <<"s", " ", "TimerIcon">>,
     <<"Consumed", ":">> \o Pad(5) \o Get(metrics, "consumer_msgs")
       \o <<" ", "msgs", " ", "(">> \o Get(metrics, "consumer_mb") \o <<" ", "MB", ")">>,
     <<"TPS", ":">> \o Pad(10) \o Get(metrics, "consumer_msgps")
       \o <<" ", "msg/s", " ", "StarIcon">>,
     <<"Throughput", ":">> \o Pad(3) \o Get(metrics, "consumer_mbps") \o <<" ", "MB/s">>,
     <<>>,
     <<"Fetch", " ", "Stats", ":">>,
     Pad(2) \o <<"Time", ":">> \o Pad(7) \o Get(metrics, "consumer_fetch_ms") \o <<" ", "ms">>,
     Pad(2) \o <<"Rate", ":">> \o Pad(7) \o Get(metrics, "consumer_fetch_mbps")
       \o <<" ", "MB/s", " ", "|", " ">> \o Get(metrics, "consumer_fetch_msgps")
       \o <<" ", "msg/s">>,
     Pad(2) \o <<"Rebalance", ":">> \o Pad(2) \o Get(metrics, "consumer_rebalance_ms")
       \o <<" ", "ms">> >>

\* the consumer block whatever the model
HasConsumerResults_Always(metrics) == TRUE

\* metrics.get('consumer_msgs') != 'N/A': None, for a missing key, is not 'N/A'
HasConsumerResults(metrics) ==
  "consumer_msgs" \notin DOMAIN metrics \/ metrics["consumer_msgs"] # NA

\* TextReporter.generate(metrics)
TextReport(metrics) ==
  Join(ReportHead(metrics), NL) \o <<NL>>
    \o (IF HasConsumerResults(metrics)
        THEN Join(ReportConsumer(metrics), NL) \o <<NL>>
        ELSE <<>>)

\* report = TextReporter().generate(metrics), metrics the model returned
Generate ==
  /\ pc = "returned"
  /\ report' = TextReport(result.val)
  /\ pc' = "reported"
  /\ UNCHANGED <<content, result, runVars, extracted, html>>

NextReport ==
  \/ Parse
  \/ Generate

SpecReport == Init /\ [][NextReport]_vars

(***************************************************************************)
(* KafkaPerfWrapper.run() and check(): one execution, statement by        *)
(* statement.  The Kafka tools are the environment: each invocation ends   *)
(* with some exit code and some standard output.  events is what the       *)
(* execution has done that a user can see: the invocations, the rendered   *)
(* reports, the final message, the exception or exit that ended it.  temps *)
(* is the set of temporary files on disk.                                  *)
(***************************************************************************)
ExitCodes == {0, 1}

\* self.config for run(): msk_iam.enabled, a usable test.payload_file,
\* test.payload_bytes present, the keys of producer (acks, compression,
\* linger_ms, batch_size) present, test.create_topic, consumer.enabled
RunConfigs ==
  [command : {"run"}, msk : BOOLEAN, payload : BOOLEAN, payloadBytes : BOOLEAN,
   producerKeys : BOOLEAN, createTopic : BOOLEAN, consumer : BOOLEAN]

\* self.config for check(): msk_iam.enabled and the keys of producer
CheckConfigs == [command : {"check"}, msk : BOOLEAN, producerKeys : BOOLEAN]

Configs == RunConfigs \cup CheckConfigs

ErrorLine == <<"Error", ":", " ", "broker", " ", "unreachable">>
ProgressLine ==
  <<"5", "0", "0", " ", "records", " ", "sent", ",", " ", "9", "9", ".", "8", " ",
    "records/sec", " ", "(", "0", ".", "1", "0", " ", "MB/sec", ")">>
\* what kafka-producer-perf-test may print: nothing, an error, its progress
\* and final lines, or a final line cut after its first comma
ProducerOutputs ==
  { <<>>,
    ErrorLine \o <<NL>>,
    ProgressLine \o <<NL>> \o BaseProducerLine \o <<NL>>,
    <<"1", "0", "0", "0", " ", "records", " ", "sent", ",">> \o <<NL>> }

ColumnLine ==
  <<"start.time", ",", " ", "end.time", ",", " ", "data.consumed.in.MB", ",", " ",
    "MB.sec", ",", " ", "data.consumed.in.nMsg", ",", " ", "nMsg.sec", ",", " ",
    "rebalance.time.ms", ",", " ", "fetch.time.ms", ",", " ", "fetch.MB.sec", ",", " ",
    "fetch.nMsg.sec">>
\* what kafka-consumer-perf-test may print: nothing, an error, the metrics
\* line alone or under its column line
ConsumerOutputs ==
  { <<>>,
    ErrorLine \o <<NL>>,
    BaseConsumerLine \o <<NL>>,
    ColumnLine \o <<NL>> \o BaseConsumerLine \o <<NL>> }

\* summary_header
SummaryHeader == Join(HeadLines, NL) \o <<NL>>

\* report_msg
ReportMsg(consumerEnabled) ==
  <<NL, NL, "Report", " ", "saved", " ", "to", ":", " ", "run_dir", NL>>
    \o <<" ", "-", " ", "Producer", " ", "output", ":", " ", "producer.out", NL>>
    \o (IF consumerEnabled
        THEN <<" ", "-", " ", "Consumer", " ", "output", ":", " ", "consumer.out", NL>>
        ELSE <<>>)
    \o <<" ", "-", " ", "Summary", ":", " ", "summary.txt", NL>>

\* the last line of the producer's output that contains 'records sent'
\* (<<>> for none: producer_summary stays None)
ProducerSummaryLine(out) ==
  LET lines == Split(out, NL)
      hits == {i \in 1..Len(lines) : Contains(<<"records", " ", "sent">>, lines[i])}
  IN IF hits = {} THEN <<>> ELSE lines[MaxOf(hits)]

\* the first line of the consumer's output with a comma and more than five
\* comma fields (<<>> for none: the loop ends without a write)
ConsumerSummaryLine(out) ==
  LET lines == Split(out, NL)
      hits == {i \in 1..Len(lines) :
                 Contains(<<",">>, lines[i]) /\ Len(Split(lines[i], ",")) > 5}
  IN IF hits = {} THEN <<>> ELSE lines[MinOf(hits)]

\* _render_report raises on a producer line whose field 1 is blank:
\* parts[1].strip().split()[0]
RenderRaises(text) ==
  LET line == ExtractSection(text, ProducerHeader)
      parts == Split(line, ",")
  IN line # <<>> /\ Len(parts) > 1 /\ Len(SplitWs(Strip(parts[2]))) = 0

InitRun ==
  /\ ParserIdle
  /\ cfg \in Configs
  /\ rpc = IF cfg.command = "run" THEN "start" ELSE "check"
  /\ prodExit = 0 /\ consExit = 0
  /\ prodOut = <<>> /\ consOut = <<>> /\ summary = <<>>
  /\ files = {} /\ temps = {} /\ events = <<>>
  /\ ReportIdle

\* _setup_msk_iam(), called by run() and by check() before their try: with
\* MSK IAM enabled it creates the producer properties file, writes it (the
\* text needs the keys of producer: KeyError without them), then creates and
\* writes the consumer properties file
SetupMskIam ==
  /\ rpc \in {"start", "check"}
  /\ IF cfg.msk /\ ~cfg.producerKeys
     THEN /\ temps' = temps \cup {"producer.properties"}
          /\ events' = Append(events, "KeyError")
          /\ rpc' = "raised"
     ELSE /\ temps' = IF cfg.msk
                      THEN temps \cup {"producer.properties", "consumer.properties"}
                      ELSE temps
          /\ rpc' = IF rpc = "start" THEN "payload" ELSE "list_topics"
          /\ UNCHANGED events
  /\ UNCHANGED <<parserVars, reportVars, cfg, prodExit, consExit, prodOut, consOut, summary, files>>

\* _setup_msk_iam() ends the process: no region, no credentials, or the role
\* cannot be assumed
SetupMskIamExits ==
  /\ rpc \in {"start", "check"}
  /\ cfg.msk
  /\ events' = Append(events, "exit")
  /\ rpc' = "exited"
  /\ UNCHANGED <<parserVars, reportVars, cfg, prodExit, consExit, prodOut, consOut, summary, files,
                 temps>>

\* _create_payload_file(test_config): the minified copy
CreatePayloadFile ==
  /\ rpc = "payload"
  /\ temps' = IF cfg.payload THEN temps \cup {"payload.json"} ELSE temps
  /\ rpc' = "payload_size"
  /\ UNCHANGED <<parserVars, reportVars, cfg, prodExit, consExit, prodOut, consOut, summary, files,
                 events>>

\* actual_payload_size = payload_size if use_custom_payload else
\* test_config['payload_bytes'], the last statement before the try
ActualPayloadSize ==
  /\ rpc = "payload_size"
  /\ IF ~cfg.payload /\ ~cfg.payloadBytes
     THEN events' = Append(events, "KeyError") /\ rpc' = "raised"
     ELSE UNCHANGED events /\ rpc' = "header"
  /\ UNCHANGED <<parserVars, reportVars, cfg, prodExit, consExit, prodOut, consOut, summary, files,
                 temps>>

\* summary_out.write_text(summary_header)
WriteHeader ==
  /\ rpc = "header"
  /\ IF cfg.producerKeys
     THEN /\ summary' = SummaryHeader
          /\ files' = files \cup {"summary.txt"}
          /\ rpc' = IF cfg.createTopic THEN "topic" ELSE "producer"
          /\ UNCHANGED events
     ELSE /\ events' = Append(events, "KeyError")
          /\ rpc' = "unwinding"
          /\ UNCHANGED <<summary, files>>
  /\ UNCHANGED <<parserVars, reportVars, cfg, prodExit, consExit, prodOut, consOut, temps>>

\* kafka-topics --create: the result is not looked at
CreateTopic ==
  /\ rpc = "topic"
  /\ events' = Append(events, "kafka-topics")
  /\ rpc' = "producer"
  /\ UNCHANGED <<parserVars, reportVars, cfg, prodExit, consExit, prodOut, consOut, summary, files,
                 temps>>

\* result = self._run_kafka_cmd(producer_cmd, ...)
RunProducer ==
  /\ rpc = "producer"
  /\ \E code \in ExitCodes, out \in ProducerOutputs :
       prodExit' = code /\ prodOut' = out
  /\ events' = Append(events, "producer")
  /\ rpc' = "producer_out"
  /\ UNCHANGED <<parserVars, reportVars, cfg, consExit, consOut, summary, files, temps>>

\* the raw output written and the consumer started before the producer's
\* summary line is looked for
WriteProducerOut_ThenConsumer ==
  /\ rpc = "producer_out"
  /\ files' = files \cup {"producer.out"}
  /\ events' = Append(events, "producer.out")
  /\ rpc' = IF cfg.consumer THEN "consumer" ELSE "producer_summary"
  /\ UNCHANGED <<parserVars, reportVars, cfg, prodExit, consExit, prodOut, consOut, summary, temps>>

\* producer_out.write_text(result.stdout + result.stderr)
WriteProducerOut ==
  /\ rpc = "producer_out"
  /\ files' = files \cup {"producer.out"}
  /\ events' = Append(events, "producer.out")
  /\ rpc' = "producer_summary"
  /\ UNCHANGED <<parserVars, reportVars, cfg, prodExit, consExit, prodOut, consOut, summary, temps>>

\* the producer summary is extracted and appended
AppendProducerSummary ==
  /\ rpc = "producer_summary"
  /\ LET line == ProducerSummaryLine(prodOut)
     IN IF line # <<>>
        THEN /\ summary' = summary \o <<NL>> \o ProducerHeader \o <<NL>> \o line \o <<NL>>
             /\ events' = Append(events, "producer_summary")
        ELSE UNCHANGED <<summary, events>>
  /\ rpc' = IF cfg.consumer THEN "consumer" ELSE "report_msg"
  /\ UNCHANGED <<parserVars, reportVars, cfg, prodExit, consExit, prodOut, consOut, files, temps>>

\* result = self._run_kafka_cmd(consumer_cmd, jar_path)
RunConsumer ==
  /\ rpc = "consumer"
  /\ \E code \in ExitCodes, out \in ConsumerOutputs :
       consExit' = code /\ consOut' = out
  /\ events' = Append(events, "consumer")
  /\ rpc' = "consumer_out"
  /\ UNCHANGED <<parserVars, reportVars, cfg, prodExit, prodOut, summary, files, temps>>

\* consumer_out.write_text(result.stdout + result.stderr)
WriteConsumerOut ==
  /\ rpc = "consumer_out"
  /\ files' = files \cup {"consumer.out"}
  /\ events' = Append(events, "consumer.out")
  /\ rpc' = "consumer_summary"
  /\ UNCHANGED <<parserVars, reportVars, cfg, prodExit, consExit, prodOut, consOut, summary, temps>>

\* the consumer summary is extracted and appended
AppendConsumerSummary ==
  /\ rpc = "consumer_summary"
  /\ LET line == ConsumerSummaryLine(consOut)
     IN IF line # <<>>
        THEN /\ summary' = summary \o <<NL>> \o ConsumerHeader \o <<NL>> \o line \o <<NL>>
             /\ events' = Append(events, "consumer_summary")
        ELSE UNCHANGED <<summary, events>>
  /\ rpc' = "report_msg"
  /\ UNCHANGED <<parserVars, reportVars, cfg, prodExit, consExit, prodOut, consOut, files, temps>>

\* report_msg is printed and appended to the summary
AppendReportMsg ==
  /\ rpc = "report_msg"
  /\ summary' = summary \o ReportMsg(cfg.consumer)
  /\ events' = Append(events, "report_msg")
  /\ rpc' = "render_text"
  /\ UNCHANGED <<parserVars, reportVars, cfg, prodExit, consExit, prodOut, consOut, files, temps>>

\* self._render_report(str(summary_out))
RenderText ==
  /\ rpc = "render_text"
  /\ IF RenderRaises(summary)
     THEN events' = Append(events, "IndexError") /\ rpc' = "unwinding"
     ELSE events' = Append(events, "render_text") /\ rpc' = "render_html"
  /\ UNCHANGED <<parserVars, reportVars, cfg, prodExit, consExit, prodOut, consOut, summary, files,
                 temps>>

\* self._render_report(str(summary_out), str(html_path))
RenderHtml ==
  /\ rpc = "render_html"
  /\ files' = files \cup {"report.html"}
  /\ events' = Append(events, "render_html")
  /\ rpc' = "success"
  /\ UNCHANGED <<parserVars, reportVars, cfg, prodExit, consExit, prodOut, consOut, summary, temps>>

\* print("Test completed successfully!") and the report locations
PrintSuccess ==
  /\ rpc = "success"
  /\ events' = Append(events, "success")
  /\ rpc' = "finishing"
  /\ UNCHANGED <<parserVars, reportVars, cfg, prodExit, consExit, prodOut, consOut, summary, files,
                 temps>>

\* check(): kafka-topics --list; sys.exit(1) when it fails, else the topic
\* is looked for in its output
ListTopics ==
  /\ rpc = "list_topics"
  /\ \E code \in ExitCodes, found \in BOOLEAN :
       IF code # 0
       THEN events' = Append(Append(events, "kafka-topics"), "exit") /\ rpc' = "exiting"
       ELSE /\ events' = Append(events, "kafka-topics")
            /\ rpc' = IF found THEN "describe" ELSE "finishing"
  /\ UNCHANGED <<parserVars, reportVars, cfg, prodExit, consExit, prodOut, consOut, summary, files,
                 temps>>

\* check(): kafka-topics --describe for a topic that exists
DescribeTopic ==
  /\ rpc = "describe"
  /\ events' = Append(events, "kafka-topics")
  /\ rpc' = "finishing"
  /\ UNCHANGED <<parserVars, reportVars, cfg, prodExit, consExit, prodOut, consOut, summary, files,
                 temps>>

\* finally, of run() and of check(): the temporary files are unlinked, and
\* the method returns or the exception or exit goes on
Cleanup ==
  /\ rpc \in {"finishing", "unwinding", "exiting"}
  /\ temps' = temps \ {"producer.properties", "consumer.properties", "payload.json"}
  /\ rpc' = CASE rpc = "finishing" -> "returned"
              [] rpc = "unwinding" -> "raised"
              [] rpc = "exiting" -> "exited"
  /\ UNCHANGED <<parserVars, reportVars, cfg, prodExit, consExit, prodOut, consOut, summary, files,
                 events>>

NextRun ==
  \/ SetupMskIam
  \/ SetupMskIamExits
  \/ CreatePayloadFile
  \/ ActualPayloadSize
  \/ WriteHeader
  \/ CreateTopic
  \/ RunProducer
  \/ WriteProducerOut
  \/ AppendProducerSummary
  \/ RunConsumer
  \/ WriteConsumerOut
  \/ AppendConsumerSummary
  \/ AppendReportMsg
  \/ RenderText
  \/ RenderHtml
  \/ PrintSuccess
  \/ ListTopics
  \/ DescribeTopic
  \/ Cleanup

SpecRun == InitRun /\ [][NextRun]_vars

(***************************************************************************)
(* kafka_perf.py: the render command.  main() builds the wrapper and calls *)
(* render(report_path, html, output); _render_report reads the summary     *)
(* file, extracts the fields with its own code, prints the text report and *)
(* hands the same values to _generate_html.  cfg holds the arguments:      *)
(* whether --html was given and whether the summary file exists.           *)
(***************************************************************************)
RenderArgs == [html : BOOLEAN, exists : BOOLEAN]

RenderConsumerKeys == {"consumer_start", "consumer_end", "consumer_mb", "consumer_mbps",
                       "consumer_msgs", "consumer_msgps"}

RenderKeys == BasicKeys \cup ProducerKeys \cup RenderConsumerKeys

\* _extract_value(records_line, r'Payload:\s*(\d+)\s*bytes')
ExtractPayloadBytes(s) ==
  LET label == <<"Payload", ":">>
      ok(i) == /\ MatchAt(label, s, i)
               /\ LET d == SkipWs(s, i + Len(label))
                      e == RunEnd(s, d, Digit)
                  IN e >= d /\ MatchAt(<<"bytes">>, s, SkipWs(s, e + 1))
      hits == {i \in 1..Len(s) : ok(i)}
  IN IF hits = {} THEN NA
     ELSE LET d == SkipWs(s, MinOf(hits) + Len(label))
          IN Strip(SubSeq(s, d, RunEnd(s, d, Digit)))

\* the identity and plan fields as _render_report extracts them
RenderBasic(text) ==
  LET records_line == ExtractLabel(text, <<"Records", ":">>)
  IN [key \in BasicKeys |->
       CASE key = "topic" -> ExtractLabel(text, <<"Topic", ":">>)
         [] key = "bootstrap" -> ExtractLabel(text, <<"Bootstrap", ":">>)
         [] key = "records_line" -> records_line
         [] key = "producer_config" -> ExtractLabel(text, <<"Producer", ":">>)
         [] key = "num_records" -> ExtractLeadingDigits(records_line)
         [] key = "target_tps" -> ExtractLabelDigits(records_line, <<"TPS", ":">>, <<>>)
         [] key = "payload_size" -> ExtractPayloadBytes(records_line)
         [] key = "duration" ->
              ExtractLabelDigits(records_line, <<"Duration", ":">>, <<"s">>)]

\* try: tps = f"{int(float(tps_raw))}"  except: tps = tps_raw
RenderTps(raw) ==
  IF raw = NA THEN NA
  ELSE LET t == TpsText(raw)
       IN IF t.kind = "raise" THEN raw ELSE t.val

\* the producer fields of _render_report: the line split at commas, the
\* rate token may be missing (IndexError)
RenderProducer(line) ==
  IF line = <<>>
  THEN Ret([key \in ProducerKeys |-> NA])
  ELSE LET parts == Split(line, ",")
           raw == TpsRaw(parts)
           grp == ParenGroup(line)
       IN IF raw.kind = "raise" THEN raw
          ELSE Ret([key \in ProducerKeys |->
            CASE key = "records" ->
                   Remove(Strip(At(parts, 0)), <<" ", "records", " ", "sent">>)
              [] key = "tps" -> RenderTps(raw.val)
              [] key = "mbps" -> IF grp = <<>> THEN NA ELSE grp
              [] key = "avg_ms" ->
                   FormatLatency(FieldSansSuffix(parts, 2,
                     <<" ", "ms", " ", "avg", " ", "latency">>))
              [] key = "max_ms" ->
                   FormatLatency(FieldSansSuffix(parts, 3,
                     <<" ", "ms", " ", "max", " ", "latency">>))
              [] key = "p50" -> FieldSansSuffix(parts, 4, <<" ", "ms", " ", "5", "0", "th">>)
              [] key = "p95" -> FieldSansSuffix(parts, 5, <<" ", "ms", " ", "9", "5", "th">>)
              [] key = "p99" -> FieldSansSuffix(parts, 6, <<" ", "ms", " ", "9", "9", "th">>)
              [] key = "p999" ->
                   Remove(FieldSansSuffix(parts, 7,
                     <<" ", "ms", " ", "9", "9", ".", "9", "th">>), <<".">>)])

\* the consumer fields of _render_report: the first six fields, stripped
RenderConsumer(line) ==
  IF line = <<>>
  THEN [key \in RenderConsumerKeys |-> NA]
  ELSE LET parts == Split(line, ",")
       IN [key \in RenderConsumerKeys |->
            CASE key = "consumer_start" -> FieldOrNA(parts, 0)
              [] key = "consumer_end" -> FieldOrNA(parts, 1)
              [] key = "consumer_mb" -> FieldOrNA(parts, 2)
              [] key = "consumer_mbps" -> FieldOrNA(parts, 3)
              [] key = "consumer_msgs" -> FieldOrNA(parts, 4)
              [] key = "consumer_msgps" -> FieldOrNA(parts, 5)]

\* the local variables of _render_report after its parsing, or the exception
RenderFields(text) ==
  LET producer == RenderProducer(ExtractSection(text, ProducerHeader))
  IN IF producer.kind = "raise" THEN producer
     ELSE Ret(Merge(Merge(RenderBasic(text), producer.val),
                    RenderConsumer(ExtractSection(text, ConsumerHeader))))

\* the report _render_report prints, line by line
RenderLines(f) ==
  << <<>>,
     <<"BoxTop">>,
     <<"BoxSide", " ", "Kafka", " ", "Performance", " ", "Report", " ", "(", "CLI", ")", " ",
       "BoxSide">>,
     <<"BoxBottom">>,
     <<>>,
     <<"ChartIcon", " ", "Test", " ", "Configuration">>,
     <<"Rule">>,
     <<"Topic", ":">> \o Pad(8) \o f.topic,
     <<"Bootstrap", ":">> \o Pad(4) \o f.bootstrap,
     <<"Records", ":">> \o Pad(6) \o f.records_line,
     <<>>,
     <<"RocketIcon", " ", "Producer", " ", "Results", " ", "(", "TPS", " ", "is", " ",
       "most", " ", "important", ")">>,
     <<"Rule">>,
     <<"TPS", ":">> \o Pad(10) \o f.tps \o <<" ", "msg/s", " ", "StarIcon">>,
     <<"Throughput", ":">> \o Pad(3) \o f.mbps,
     <<"Records", " ", "Sent", ":">> \o Pad(1) \o f.records,
     <<"Latency", " ", "Avg", ":">> \o Pad(2) \o f.avg_ms \o <<" ", "ms">>,
     <<"Latency", " ", "Max", ":">> \o Pad(2) \o f.max_ms \o <<" ", "ms">>,
     <<"P50/P95/P99", ":">> \o Pad(2) \o f.p50 \o <<" ", "/", " ">>
       \o f.p95 \o <<" ", "/", " ">> \o f.p99 \o <<" ", "ms">>,
     <<"P99.9", ":">> \o Pad(8) \o f.p999 \o <<" ", "ms">>,
     <<>>,
     <<"InboxIcon", " ", "Consumer", " ", "Results">>,
     <<"Rule">>,
     <<"Window", ":">> \o Pad(7) \o f.consumer_start \o <<" ", "Arrow", " ">>
       \o f.consumer_end,
     <<"Consumed", ":">> \o Pad(5) \o f.consumer_msgs
       \o <<" ", "msgs", " ", "(">> \o f.consumer_mb \o <<" ", "MB", ")">>,
     <<"TPS", ":">> \o Pad(10) \o f.consumer_msgps \o <<" ", "msg/s">>,
     <<"Throughput", ":">> \o Pad(3) \o f.consumer_mbps \o <<" ", "MB/s">> >>

\* the arguments of the call self._generate_html(html_output, topic, ...),
\* in the order of the call
HtmlCallArgs(f) ==
  <<f.topic, f.bootstrap, f.records_line, f.tps, f.mbps, f.records, f.avg_ms, f.max_ms,
    f.p50, f.p95, f.p99, f.p999, f.consumer_start, f.consumer_end, f.consumer_msgs,
    f.consumer_mb, f.consumer_msgps, f.consumer_mbps, f.producer_config, f.num_records,
    f.target_tps, f.payload_size, f.duration>>

\* the parameters of _generate_html after output_path, in the order of the def
HtmlParams ==
  <<"topic", "bootstrap", "records_line", "tps", "mbps", "records_sent", "avg_ms", "max_ms",
    "p50", "p95", "p99", "p999", "consumer_start", "consumer_end", "consumer_msgs",
    "consumer_mb", "consumer_msgps", "consumer_mbps", "producer_config", "num_records",
    "target_tps", "payload_size", "duration">>

\* the parameter bound to each positional argument
BindHtml(args) ==
  [name \in {HtmlParams[i] : i \in 1..Len(HtmlParams)} |->
     args[CHOOSE i \in 1..Len(HtmlParams) : HtmlParams[i] = name]]

HtmlCells == {"target_tps", "payload_size", "duration", "num_records", "topic", "bootstrap",
              "producer_config", "tps", "tps_note", "mbps", "avg_ms", "max_ms", "p50", "p95",
              "p99", "p999", "records_sent", "window", "consumer_msgs", "consumer_mb",
              "consumer_msgps", "consumer_mbps", "generated"}

\* a page whose message count and data volume cells are exchanged
HtmlPage_CountsSwapped(a) ==
  [cell \in HtmlCells |->
     CASE cell = "tps_note" -> <<"msg/s", " ", "Dot", " ", "target", " ">> \o a.target_tps
       [] cell \in {"p50", "p95", "p99", "p999"} -> a[cell] \o <<" ", "ms">>
       [] cell = "window" -> a.consumer_start \o <<" ", "Arrow", " ">> \o a.consumer_end
       [] cell = "consumer_msgs" -> a.consumer_mb
       [] cell = "consumer_mb" -> a.consumer_msgs \o <<" ", "MB">>
       [] cell = "consumer_msgps" -> a.consumer_msgps \o <<" ", "msg/s">>
       [] cell = "consumer_mbps" -> a.consumer_mbps \o <<" ", "MB/s">>
       [] cell = "generated" -> <<"Timestamp">>
       [] OTHER -> a[cell]]

\* the text of every cell of the page _generate_html writes that holds an
\* interpolated value; the time of generation is one symbol
HtmlPage(a) ==
  [cell \in HtmlCells |->
     CASE cell = "tps_note" -> <<"msg/s", " ", "Dot", " ", "target", " ">> \o a.target_tps
       [] cell \in {"p50", "p95", "p99", "p999"} -> a[cell] \o <<" ", "ms">>
       [] cell = "window" -> a.consumer_start \o <<" ", "Arrow", " ">> \o a.consumer_end
       [] cell = "consumer_mb" -> a.consumer_mb \o <<" ", "MB">>
       [] cell = "consumer_msgps" -> a.consumer_msgps \o <<" ", "msg/s">>
       [] cell = "consumer_mbps" -> a.consumer_mbps \o <<" ", "MB/s">>
       [] cell = "generated" -> <<"Timestamp">>
       [] OTHER -> a[cell]]

InitRender ==
  /\ cfg \in RenderArgs
  /\ content \in (IF cfg.exists THEN Documents ELSE {<<>>})
  /\ pc = "idle" /\ result = NoResult
  /\ rpc = "main"
  /\ prodExit = 0 /\ consExit = 0
  /\ prodOut = <<>> /\ consOut = <<>> /\ summary = <<>>
  /\ files = {} /\ temps = {} /\ events = <<>>
  /\ ReportIdle

\* main(): wrapper = KafkaPerfWrapper(); render() computes html_path and
\* calls _render_report
CallRender ==
  /\ rpc = "main"
  /\ rpc' = "render_report"
  /\ UNCHANGED <<parserVars, reportVars, cfg, prodExit, consExit, prodOut, consOut, summary,
                 files, temps, events>>

\* _render_report: the summary file does not exist, a message is printed and
\* the method returns
SummaryNotFound ==
  /\ rpc = "render_report"
  /\ ~cfg.exists
  /\ events' = Append(events, "not_found")
  /\ rpc' = "rendered"
  /\ UNCHANGED <<parserVars, reportVars, cfg, prodExit, consExit, prodOut, consOut, summary,
                 files, temps>>

\* _render_report: the file is read, the fields are extracted and the text
\* report is printed
PrintReport ==
  /\ rpc = "render_report"
  /\ cfg.exists
  /\ \E f \in {RenderFields(content)} :
        IF f.kind = "raise"
        THEN /\ events' = Append(events, f.exc)
             /\ rpc' = "raised"
             /\ UNCHANGED <<extracted, report>>
        ELSE /\ extracted' = f.val
             /\ report' = Join(RenderLines(f.val), NL) \o <<NL>>
             /\ events' = Append(events, "report")
             /\ rpc' = IF cfg.html THEN "generate_html" ELSE "rendered"
  /\ UNCHANGED <<parserVars, html, cfg, prodExit, consExit, prodOut, consOut, summary, files,
                 temps>>

\* if html_output: self._generate_html(html_output, ...) writes the page
GenerateHtml ==
  /\ rpc = "generate_html"
  /\ \E args \in {HtmlCallArgs(extracted)} : html' = HtmlPage(BindHtml(args))
  /\ files' = files \cup {"report.html"}
  /\ rpc' = "rendered"
  /\ UNCHANGED <<parserVars, extracted, report, cfg, prodExit, consExit, prodOut, consOut,
                 summary, temps, events>>

\* render(): if html and html_path: print("Open in browser: file://...");
\* main() then ends normally
AnnounceHtml ==
  /\ rpc = "rendered"
  /\ events' = IF cfg.html THEN Append(events, "open_in_browser") ELSE events
  /\ rpc' = "returned"
  /\ UNCHANGED <<parserVars, reportVars, cfg, prodExit, consExit, prodOut, consOut, summary,
                 files, temps>>

\* main(): except Exception prints the error and the traceback, sys.exit(1)
MainExits ==
  /\ rpc = "raised"
  /\ events' = Append(events, "exit")
  /\ rpc' = "exited"
  /\ UNCHANGED <<parserVars, reportVars, cfg, prodExit, consExit, prodOut, consOut, summary,
                 files, temps>>

NextRender ==
  \/ CallRender
  \/ SummaryNotFound
  \/ PrintReport
  \/ GenerateHtml
  \/ AnnounceHtml
  \/ MainExits

SpecRender == InitRender /\ [][NextRender]_vars

(***************************************************************************)
(* The two thousands-grouping formatters, ResultParser._format_number and   *)
(* utils.format_number, applied to one text in either order.  result.val    *)
(* holds what each has returned so far.                                     *)
(***************************************************************************)
FormatInputs == ConsumerTokens
Formatters == {"parser", "utils"}
NoFormats == [k \in {} |-> <<>>]
WithFormat(done, name, text) ==
  [k \in DOMAIN done \cup {name} |-> IF k = name THEN text ELSE done[k]]

InitFormat ==
  /\ content \in FormatInputs
  /\ pc = "formatting"
  /\ result = [kind |-> "formats", val |-> NoFormats]
  /\ RunIdle
  /\ ReportIdle

\* ResultParser._format_number(content)
CallParserFormatNumber ==
  /\ pc = "formatting"
  /\ "parser" \notin DOMAIN result.val
  /\ result' = [result EXCEPT !.val = WithFormat(@, "parser", FormatNumber(content))]
  /\ pc' = IF DOMAIN result'.val = Formatters THEN "formatted" ELSE "formatting"
  /\ UNCHANGED <<content, runVars, reportVars>>

\* utils.format_number(content)
CallUtilsFormatNumber ==
  /\ pc = "formatting"
  /\ "utils" \notin DOMAIN result.val
  /\ result' = [result EXCEPT !.val = WithFormat(@, "utils", UtilsFormatNumber(content))]
  /\ pc' = IF DOMAIN result'.val = Formatters THEN "formatted" ELSE "formatting"
  /\ UNCHANGED <<content, runVars, reportVars>>

NextFormat ==
  \/ CallParserFormatNumber
  \/ CallUtilsFormatNumber

SpecFormat == InitFormat /\ [][NextFormat]_vars

(***************************************************************************)
(* Properties of the parser.                                               *)
(***************************************************************************)
Finished == pc \in {"returned", "raised"}
Returned == pc = "returned"

\* C1: parse_summary is total: whatever the document (empty, empty comma
\* fields, non-numeric tokens, NaN or Infinity in a numeric position), it
\* returns a model and never raises.
C1_ParseSummaryNeverRaises == Finished => result.kind = "ok"

\* C2: whenever parse_summary returns, the model has exactly the 28 keys
\* (8 identity and plan, 9 producer, 11 consumer) and every value is a text:
\* no key is missing, whether a section is absent or has any number of fields.
ModelKeys == BasicKeys \cup ProducerKeys \cup ConsumerKeys
IsText(v) == DOMAIN v = 1..Len(v) /\ \A i \in 1..Len(v) : v[i] \in STRING
C2_EveryKeyPresent ==
  Returned =>
    /\ DOMAIN result.val = ModelKeys
    /\ Cardinality(DOMAIN result.val) = 8 + 9 + 11
    /\ \A key \in ModelKeys : IsText(result.val[key])

\* a returned model of a document with no producer section and a consumer
\* line of three fields
C2_Witness ==
  /\ Returned
  /\ content = ShapeDoc([head |-> TRUE, pk |-> "none", ck |-> "line",
                         pFirst |-> TRUE, cline |-> ThreeFieldConsumerLine])
  /\ result.val["p999"] = NA
  /\ result.val["consumer_msgs"] = NA
  /\ result.val["consumer_mb"] # NA

\* the model key of a numeric field of the producer line (1..7) and of the
\* consumer line (2..9), Python numbering
ProducerKeyOf(j) ==
  <<"tps", "avg_ms", "max_ms", "p50", "p95", "p99", "p999">>[j]
ConsumerKeyOf(j) ==
  <<"consumer_mb", "consumer_mbps", "consumer_msgs", "consumer_msgps",
    "consumer_rebalance_ms", "consumer_fetch_ms", "consumer_fetch_mbps",
    "consumer_fetch_msgps">>[j - 1]

\* documents with one malformed numeric field: the document, the key of the
\* field, and the document with that field well-formed
MalformedCases ==
  {[doc |-> ProducerDoc(ProducerLine(8, WithToken(BaseTokens, j, t), 1, BaseRate)),
    key |-> ProducerKeyOf(j),
    good |-> ProducerDoc(BaseProducerLine)] : j \in 1..7, t \in MalformedTokens}
  \cup
  {[doc |-> ConsumerDoc(Join(WithField(BaseConsumerFields, j, t), ",")),
    key |-> ConsumerKeyOf(j),
    good |-> ConsumerDoc(BaseConsumerLine)] : j \in 2..9, t \in MalformedTokens}

\* C4: a numeric field that is present but does not parse as a number becomes
\* "N/A", that field only: the parse does not fail, the raw text is not
\* echoed, and every other field is what it is with the field well-formed.
C4_MalformedFieldIsSentinel ==
  \A c \in MalformedCases :
    (Finished /\ content = c.doc) =>
      /\ result.kind = "ok"
      /\ result.val[c.key] = NA
      /\ \A key \in ModelKeys \ {c.key} : result.val[key] = ParseSummary(c.good).val[key]

\* documents whose producer section is absent, is the last line, or has a
\* blank line after the header, each with the same document with the base
\* producer line in the section
NoProducerCases ==
  {[doc |-> ShapeDoc(sh), head |-> sh.head,
    with |-> ShapeDoc([sh EXCEPT !.pk = "line", !.pFirst = (sh.pk # "last") /\ sh.pFirst])] :
     sh \in {x \in Shapes : x.pk # "line"}}

\* C5: with no 'Producer Summary:' header, or the header on the last line, or
\* a blank line after it, the nine producer fields are all "N/A" and the
\* identity, plan and consumer fields are extracted as they are with the
\* section present (a consumer line that makes the parse raise still does).
C5_NoProducerSection ==
  \A c \in NoProducerCases :
    (Finished /\ content = c.doc) =>
      LET with == ParseSummary(c.with)
      IN IF with.kind = "raise" THEN result = with
         ELSE /\ result.kind = "ok"
              /\ \A key \in ProducerKeys : result.val[key] = NA
              /\ \A key \in ModelKeys \ ProducerKeys : result.val[key] = with.val[key]
              /\ result.val["topic"] = IF c.head THEN <<"perf">> ELSE NA
              /\ result.val["num_records"] = IF c.head THEN <<"1", "0", "0", "0">> ELSE NA
              /\ with.val["tps"] = <<"8", "3", "3">>

\* the header is the last line of the document, after the consumer section
C5_Witness ==
  /\ Returned
  /\ content = ShapeDoc([head |-> TRUE, pk |-> "last", ck |-> "line",
                         pFirst |-> FALSE, cline |-> BaseConsumerLine])
  /\ result.val["tps"] = NA
  /\ result.val["consumer_msgs"] = <<"1", ",", "0", "0", "0">>

\* consumer lines of the detailed-stats layout: a timestamp, a worker id, the
\* eight numeric fields
DetailedLines ==
  {Join(ConsumerFields(MkTs(pt), w), ",") : pt \in TimePoints, w \in WorkerIds}

\* C6: for a consumer line in the detailed-stats layout, consumer_end and
\* consumer_duration are both "N/A": the worker id is not reported as the
\* end time.
C6_DetailedLayoutHasNoEnd ==
  \A line \in DetailedLines :
    (Returned /\ content = ConsumerDoc(line)) =>
      /\ result.val["consumer_end"] = NA
      /\ result.val["consumer_duration"] = NA

\* a line of k fields: the first k fields of the base line, or the first
\* k - 1 of them and an empty (or blank) last field
ShortCases ==
  {[doc |-> ProducerDoc(ProducerLine(k, BaseTokens, 1, BaseRate)), k |-> k,
    producer |-> TRUE] : k \in 1..8}
  \cup
  {[doc |-> ProducerDoc(ProducerLine(k - 1, BaseTokens, 1, BaseRate) \o tail), k |-> k,
    producer |-> TRUE] : k \in 2..8, tail \in {<<",">>, <<",", " ">>}}
  \cup
  {[doc |-> ConsumerDoc(Join(SubSeq(BaseConsumerFields, 1, k), ",")), k |-> k,
    producer |-> FALSE] : k \in 1..10}
  \cup
  {[doc |-> ConsumerDoc(Join(SubSeq(BaseConsumerFields, 1, k - 1), ",") \o <<",">>),
    k |-> k, producer |-> FALSE] : k \in 2..10}

\* the keys taken from one position of the line, by position (Python numbering)
ProducerPositional == <<"records", "tps", "avg_ms", "max_ms", "p50", "p95", "p99", "p999">>
ConsumerPositional ==
  <<"consumer_start", "consumer_end", "consumer_mb", "consumer_mbps", "consumer_msgs",
    "consumer_msgps", "consumer_rebalance_ms", "consumer_fetch_ms",
    "consumer_fetch_mbps", "consumer_fetch_msgps">>

\* C7: for a non-empty producer or consumer line of k fields (k from 1 to the
\* full length) no index error occurs and every positional field of index
\* >= k is "N/A".
C7_ShortLineNoIndexError ==
  \A c \in ShortCases :
    (Finished /\ content = c.doc) =>
      LET keys == IF c.producer THEN ProducerPositional ELSE ConsumerPositional
      IN /\ result.kind = "ok"
         /\ \A i \in 1..Len(keys) : i > c.k => result.val[keys[i]] = NA

\* C8: in the aggregate layout, with both timestamps of the form
\* YYYY-MM-DD HH:MM:SS:mmm, consumer_duration is end minus start in seconds
\* with exactly two decimals (15:01:00:000 to 15:01:10:500 gives "10.50");
\* with a timestamp missing or not of that form it is "N/A"; the parse
\* returns in both cases.
ElapsedText(a, b) ==
  LET ms == MillisOf(b) - MillisOf(a)
  IN IF ms >= 0 THEN Fixed2Text(FALSE, RoundDiv(ms, 10))
     ELSE Fixed2Text(TRUE, RoundDiv(0 - ms, 10))
TimedLine(a, b) == ConsumerDoc(Join(ConsumerFields(a, b), ","))
C8_Duration ==
  /\ \A a \in TimePoints, b \in TimePoints :
       (Finished /\ content = TimedLine(MkTs(a), MkTs(b))) =>
         /\ result.kind = "ok"
         /\ result.val["consumer_duration"] = ElapsedText(a, b)
         /\ Len(result.val["consumer_duration"]) >= 4
         /\ result.val["consumer_duration"][Len(result.val["consumer_duration"]) - 2] = "."
  /\ (Finished /\ content = TimedLine(MkTs(SpecStart), MkTs(SpecEnd))) =>
       result.val["consumer_duration"] = <<"1", "0", ".", "5", "0">>
  /\ \A a \in TimeTexts, b \in TimeTexts :
       (/\ Finished
        /\ a \in BadTimestamps \cup {NA} \/ b \in BadTimestamps \cup {NA}
        /\ content = TimedLine(a, b)) =>
         result.kind = "ok" /\ result.val["consumer_duration"] = NA
  /\ \A a \in TimeTexts \ {<<>>} :
       (Finished /\ content = ConsumerDoc(a)) =>
         result.kind = "ok" /\ result.val["consumer_duration"] = NA

\* the end is on the next day: 1 day + 8 h 58 min 59.996 s, 118739.996 s
C8_Witness ==
  /\ Returned
  /\ content = TimedLine(MkTs(SpecStart), MkTs(<<1, <<23, 59, 59>>, 996>>))
  /\ result.val["consumer_duration"] = <<"1", "1", "8", "7", "4", "0", ".", "0", "0">>

\* C9: for a producer line whose field 1 starts with a numeric token r >= 0,
\* tps is r with the fraction dropped, an integer text with no decimal point
\* (833.33 and 833.99 both give "833"): never rounded up.
TpsDoc(tok) == ProducerDoc(ProducerLine(8, WithToken(BaseTokens, 1, tok), 1, BaseRate))
HasGroup(line) ==
  \E i \in 1..Len(line), j \in 1..Len(line) : line[i] = "(" /\ line[j] = ")" /\ j > i + 1

\* C10: mbps is the text inside the first parenthesised group of the whole
\* producer line, whichever comma field holds it and however many fields the
\* line has; it is "N/A" exactly when the non-empty line has no such group.
C10_RateFromFirstGroup ==
  /\ \A p \in GroupPlaces, r \in {BaseRate, OtherRate} :
       (Finished /\ content = ProducerDoc(ProducerLine(p[1], BaseTokens, p[2], r))) =>
         /\ result.kind = "ok"
         /\ result.val["mbps"] = IF p[2] >= 0 THEN r ELSE NA
  /\ \A line \in TwoGroupLines :
       (Finished /\ content = ProducerDoc(line)) => result.val["mbps"] = BaseRate
  /\ \A line \in ProducerLines :
       (Returned /\ content = ProducerDoc(line)) =>
         (result.val["mbps"] = NA <=> ~HasGroup(line))

\* the group is in field 3 of a line of five fields
C10_Witness ==
  /\ Returned
  /\ content = ProducerDoc(ProducerLine(5, BaseTokens, 3, OtherRate))
  /\ result.val["mbps"] = OtherRate

(***************************************************************************)
(* Properties of run().                                                    *)
(***************************************************************************)
Happened(e) == \E i \in 1..Len(events) : events[i] = e

\* C3: if the producer or the consumer invocation made by run() ends with a
\* non-zero exit code, run() aborts: it renders neither report and does not
\* print the 'Test completed successfully' message.
C3_FailedBenchmarkAbortsRun ==
  (prodExit # 0 \/ consExit # 0) =>
    ~Happened("render_text") /\ ~Happened("render_html") /\ ~Happened("success")

(***************************************************************************)
(* Properties of the formatting rules.                                     *)
(***************************************************************************)
\* the document whose producer line has the token tok in field j
LatencyDoc(j, tok) ==
  ProducerDoc(ProducerLine(8, WithToken(BaseTokens, j, tok), 1, BaseRate))

\* C11: avg_ms and max_ms are a whole number rendered with no decimals
\* ("7.00" gives "7") and any other number rendered with exactly two
\* decimals; p50, p95 and p99 keep the text of their token ("5.00" stays
\* "5.00").
C11_LatencySmartFormat ==
  /\ \A c \in NumCases, j \in {2, 3} :
       (Finished /\ content = LatencyDoc(j, c[1])) =>
         /\ result.kind = "ok"
         /\ result.val[ProducerPositional[j + 1]] =
              IF c[2] % Pow10(c[3]) = 0
              THEN IntText(c[2] \div Pow10(c[3]))
              ELSE Fixed2Text(FALSE, RoundDiv(c[2] * 100, Pow10(c[3])))
  /\ (Finished /\ content = LatencyDoc(2, <<"7", ".", "0", "0">>)) =>
       result.val["avg_ms"] = <<"7">>
  /\ \A t \in NumTokens \cup {<<"5", ".", "0", "0">>}, j \in 4..6 :
       (Finished /\ content = LatencyDoc(j, t)) =>
         result.kind = "ok" /\ result.val[ProducerPositional[j + 1]] = t

\* the max latency 833.5 is rendered 833.50
C11_Witness ==
  /\ Returned
  /\ content = LatencyDoc(3, <<"8", "3", "3", ".", "5">>)
  /\ result.val["max_ms"] = <<"8", "3", "3", ".", "5", "0">>

NotDot(c) == c # "."
DotFree(t) == SelectSeq(t, NotDot)
HasDot(t) == \E i \in 1..Len(t) : t[i] = "."

\* C12: for a producer line of at least eight fields p999 is field 7 without
\* its ' ms 99.9th' suffix and without any '.' ("99.9 ms 99.9th" gives
\* "999"), so p999 never holds a decimal point; no other producer field
\* loses its decimal points.
C12_P999DotsRemoved ==
  /\ Returned => ~HasDot(result.val["p999"])
  /\ \A t \in NumTokens \cup MalformedTokens :
       (Finished /\ content = LatencyDoc(7, t)) =>
         result.kind = "ok" /\ result.val["p999"] = DotFree(t)
  /\ \A line \in {BaseProducerLine, NineFieldLine} :
       (Finished /\ content = ProducerDoc(line)) =>
         result.kind = "ok" /\ result.val["p999"] = <<"9", "9", "9">>
  /\ \A t \in {u \in NumTokens : HasDot(u)}, j \in 1..6 :
       (Returned /\ content = LatencyDoc(j, t)) =>
         /\ result.val[ProducerPositional[j + 1]] # DotFree(t)
         /\ result.val["mbps"] = BaseRate
         /\ j >= 4 => result.val[ProducerPositional[j + 1]] = t

\* the token 833.99 in field 7 gives 83399
C12_Witness ==
  /\ Returned
  /\ content = LatencyDoc(7, <<"8", "3", "3", ".", "9", "9">>)
  /\ result.val["p999"] = <<"8", "3", "3", "9", "9">>

\* the document whose consumer line has the token in field j
FieldDoc(j, tok) == ConsumerDoc(Join(WithField(BaseConsumerFields, j, tok), ","))
MsgRateFields == {5, 9}
AtLeastOne(c) == c[2] >= Pow10(c[3])

\* C13: a message rate (consumer_msgps, consumer_fetch_msgps) of at least 1.0
\* is shown rounded to the nearest integer, without decimals (1.9 gives "2").
C13_MsgRateRounded ==
  \A c \in {e \in ConsumerCases : AtLeastOne(e)}, j \in MsgRateFields :
    (Finished /\ content = FieldDoc(j, c[1])) =>
      /\ result.kind = "ok"
      /\ result.val[ConsumerPositional[j + 1]] = IntText(RoundDiv(c[2], Pow10(c[3])))

\* C14: a message rate below 1.0 keeps two decimals (0.42 gives "0.42") and is
\* never shown as "0".
C14_SmallMsgRateTwoDecimals ==
  /\ \A c \in {e \in ConsumerCases : ~AtLeastOne(e)}, j \in MsgRateFields :
       (Finished /\ content = FieldDoc(j, c[1])) =>
         /\ result.kind = "ok"
         /\ result.val[ConsumerPositional[j + 1]] =
              Fixed2Text(FALSE, RoundDiv(c[2] * 100, Pow10(c[3])))
         /\ result.val[ConsumerPositional[j + 1]] # <<"0">>
  /\ \A j \in MsgRateFields :
       (Finished /\ content = FieldDoc(j, <<"0", ".", "4", "2">>)) =>
         result.val[ConsumerPositional[j + 1]] = <<"0", ".", "4", "2">>
  /\ Returned => \A j \in MsgRateFields : result.val[ConsumerPositional[j + 1]] # <<"0">>

\* the fetch message rate 0.001 is shown as 0.00
C14_Witness ==
  /\ Returned
  /\ content = FieldDoc(9, <<"0", ".", "0", "0", "1">>)
  /\ result.val["consumer_fetch_msgps"] = <<"0", ".", "0", "0">>

DataRateFields == {3, 8}
KBs == <<" ", "KB/s">>
ZeroCents == <<"0", ".", "0", "0">>

\* the thousands-grouped text of the value m / 10^d: an integer without
\* decimals, any other value with two
GroupedText(m, d) ==
  IF m % Pow10(d) = 0 THEN GroupText(m \div Pow10(d))
  ELSE LET cents == RoundDiv(m * 100, Pow10(d))
       IN GroupText(cents \div 100) \o <<".">> \o PadText(cents % 100, 2)

\* C15: a data rate (consumer_mbps, consumer_fetch_mbps) below 0.01 is shown
\* as the value times 1024 with two decimals and ' KB/s'; from 0.01 up it is
\* shown by the thousands-grouping formatter; both fields follow one rule.
C15_DataRateUnit ==
  \A c \in ConsumerCases, j \in DataRateFields :
    (Finished /\ content = FieldDoc(j, c[1])) =>
      /\ result.kind = "ok"
      /\ result.val[ConsumerPositional[j + 1]] =
           IF c[2] * 100 < Pow10(c[3])
           THEN Fixed2Text(FALSE, RoundDiv(c[2] * 102400, Pow10(c[3]))) \o KBs
           ELSE GroupedText(c[2], c[3])

\* the rate 0.004 MB/s is shown as 4.10 KB/s
C15_Witness ==
  /\ Returned
  /\ content = FieldDoc(3, <<"0", ".", "0", "0", "4">>)
  /\ result.val["consumer_mbps"] = <<"4", ".", "1", "0">> \o KBs

\* C16: a strictly positive data rate is never shown with the numeric part
\* "0.00".
C16_PositiveRateNotZero ==
  \A c \in {e \in ConsumerCases : e[2] > 0}, j \in DataRateFields :
    (Returned /\ content = FieldDoc(j, c[1])) =>
      LET shown == result.val[ConsumerPositional[j + 1]]
      IN ~(/\ Len(shown) >= 4
           /\ SubSeq(shown, 1, 4) = ZeroCents
           /\ Len(shown) > 4 => shown[5] = " ")

\* the value m / 10^d MB is less than one kilobyte
SubKilobyte(c) == c[2] * 1024 < Pow10(c[3])
Last(t) == t[Len(t)]

\* C17: a consumer data volume below one kilobyte (v MB with
\* v * 1024 * 1024 < 1024) is shown as a whole number of bytes and ' bytes'
\* (0.0005 ends in "bytes"), never as a fractional KB value nor as "0.00 MB".
C17_SubKilobyteInBytes ==
  \A c \in {e \in ConsumerCases : SubKilobyte(e)} :
    (Finished /\ content = FieldDoc(2, c[1])) =>
      /\ result.kind = "ok"
      /\ result.val["consumer_mb"] =
           IntText(RoundDiv(c[2] * 1048576, Pow10(c[3]))) \o <<" ", "bytes">>
      /\ ~HasDot(result.val["consumer_mb"])
      /\ Last(result.val["consumer_mb"]) \notin {"KB", "MB"}

\* the volume 0.0005 MB is shown as 524 bytes
C17_Witness ==
  /\ Returned
  /\ content = FieldDoc(2, <<"0", ".", "0", "0", "0", "5">>)
  /\ result.val["consumer_mb"] = <<"5", "2", "4", " ", "bytes">>

\* C18: a consumer data volume of at least one kilobyte is shown in MB below
\* 1024, in GB (value / 1024) from 1024 to below 1024 * 1024, else in TB
\* (value / 1024^2), with two decimals and the unit; every value below 1024
\* that is not sub-kilobyte stays in MB.
C18_VolumeUnitScale ==
  \A c \in {e \in ConsumerCases : ~SubKilobyte(e)} :
    (Finished /\ content = FieldDoc(2, c[1])) =>
      /\ result.kind = "ok"
      /\ result.val["consumer_mb"] =
           IF c[2] < 1024 * Pow10(c[3])
           THEN LET cents == RoundDiv(c[2] * 100, Pow10(c[3]))
                IN GroupText(cents \div 100) \o <<".">> \o PadText(cents % 100, 2)
                     \o <<" ", "MB">>
           ELSE IF c[2] < 1048576 * Pow10(c[3])
           THEN Fixed2Text(FALSE, RoundDiv(c[2] * 100, 1024 * Pow10(c[3]))) \o <<" ", "GB">>
           ELSE Fixed2Text(FALSE, RoundDiv(c[2] * 100, 1048576 * Pow10(c[3])))
                  \o <<" ", "TB">>

Formatted == pc = "formatted"

\* C19: ResultParser._format_number and utils.format_number show a whole
\* number as an integer with digit grouping and no decimals, any other number
\* rounded to two decimals with digit grouping, and "N/A" as "N/A"; the two
\* return the same text for every input text.
C19_FormatNumber ==
  /\ \A c \in ConsumerCases, f \in Formatters :
       (Formatted /\ content = c[1]) => result.val[f] = GroupedText(c[2], c[3])
  /\ \A f \in Formatters : (Formatted /\ content = NA) => result.val[f] = NA
  /\ Formatted => result.val["parser"] = result.val["utils"]

\* 1234.5 is shown as 1,234.50 by both
C19_Witness ==
  /\ Formatted
  /\ content = <<"1", "2", "3", "4", ".", "5">>
  /\ result.val["parser"] = <<"1", ",", "2", "3", "4", ".", "5", "0">>
  /\ result.val["utils"] = <<"1", ",", "2", "3", "4", ".", "5", "0">>

LabelKeys == <<"topic", "bootstrap", "records_line", "producer_config">>

\* the text after the label on the head line of label k, trimmed
LabelValue(k) == Strip(SubSeq(HeadLines[k + 1], 3, Len(HeadLines[k + 1])))

\* what follows the label on the first line that contains it, "N/A" without
\* such a line
LabelExpected(k, v) ==
  CASE v \in {"bare", "blank"} -> <<>>
    [] v = "absent" -> NA
    [] v \in {"twice", "inline"} -> LabelValue(k)

\* C20: for each label (Topic:, Bootstrap:, Records:, Producer:) the value
\* extracted is the trimmed text after the label on the first line that
\* contains it, never text of another line, also when only whitespace follows
\* the label; it is "N/A" when no line contains the label.
C20_LabelValueFromItsLine ==
  /\ \A k \in 1..Len(LabelNames), v \in HeadVariants :
       (Finished /\ content = LabelDoc(k, v)) =>
         result.kind = "ok" /\ result.val[LabelKeys[k]] = LabelExpected(k, v)
  /\ \A k \in 1..Len(LabelNames), v \in LastVariants :
       (Finished /\ content = LabelLastDoc(k, v)) =>
         result.kind = "ok" /\ result.val[LabelKeys[k]] = LabelExpected(k, v)
  /\ \A k \in 1..Len(LabelNames) :
       (Finished /\ content = ProducerDoc(BaseProducerLine)) =>
         result.kind = "ok" /\ result.val[LabelKeys[k]] = LabelValue(k)

\* the model of the document whose lines and blocks are in the order run()
\* writes them
OrderModel == ParseSummary(OrderDoc([i \in 1..Len(OrderUnits) |-> i]))

\* C21: parse_summary does not depend on the order of the lines: every
\* permutation of the four labelled lines and the two section blocks (header
\* and comma line together) gives the same model.
C21_OrderIndependent ==
  (Finished /\ content \in OrderDocs) =>
    /\ result = OrderModel
    /\ result.kind = "ok"
    /\ result.val["topic"] = <<"perf">>
    /\ result.val["tps"] = <<"8", "3", "3">>
    /\ result.val["consumer_msgs"] = <<"1", ",", "0", "0", "0">>

\* the consumer block first, then Producer:, Records:, Bootstrap:, Topic:
\* and the producer block
C21_Witness ==
  /\ Returned
  /\ content = OrderDoc(<<6, 4, 3, 2, 1, 5>>)
  /\ result.val["bootstrap"] = <<"localhost", ":", "9", "0", "9", "2">>
  /\ result.val["producer_config"] = <<"acks=", "1">>

(***************************************************************************)
(* Properties of the text report.                                          *)
(***************************************************************************)
Reported == pc = "reported"
ConfigTitle == <<"ChartIcon", " ", "Test", " ", "Configuration", NL, "Rule", NL>>
ProducerTitle == <<"RocketIcon", " ", "Producer", " ", "Results">>
ConsumerTitle == <<"InboxIcon", " ", "Consumer", " ", "Results", NL, "Rule", NL>>
ShortConsumerDoc(k) == ConsumerDoc(Join(SubSeq(BaseConsumerFields, 1, k), ","))

\* C22: TextReporter.generate always emits the configuration block and the
\* producer block, and the consumer block exactly when consumer_msgs of the
\* model is not "N/A"; a consumer line of fewer than five fields gives no
\* consumer block.
C22_ConsumerBlockIffCount ==
  Reported =>
    /\ Contains(ConfigTitle \o <<"Topic", ":">>, report)
    /\ Contains(ProducerTitle, report)
    /\ Contains(<<NL, "P99.9", ":">>, report)
    /\ Contains(ConsumerTitle, report) <=> result.val["consumer_msgs"] # NA
    /\ Contains(<<NL, "Consumed", ":">>, report) <=> result.val["consumer_msgs"] # NA
    /\ \A k \in 1..4 : content = ShortConsumerDoc(k) => ~Contains(ConsumerTitle, report)
    /\ \A k \in 5..10 : content = ShortConsumerDoc(k) => Contains(ConsumerTitle, report)

\* the report of a document whose consumer line has three fields
C22_Witness ==
  /\ Reported
  /\ content = ShortConsumerDoc(3)
  /\ result.val["consumer_msgs"] = NA
  /\ ~Contains(ConsumerTitle, report)
  /\ Contains(ProducerTitle, report)

ReportLines == Split(report, NL)
StartsWith(line, pre) == MatchAt(pre, line, 1)
EndsWith(line, suf) == Len(line) >= Len(suf) /\ MatchAt(suf, line, Len(line) - Len(suf) + 1)

\* a line up to its first ':', the whole line without one
LineLabel(line) ==
  LET colons == {i \in 1..Len(line) : line[i] = ":"}
  IN IF colons = {} THEN line ELSE SubSeq(line, 1, MinOf(colons))

\* the labels of the lines of the report, in order: the frame with the
\* configuration and producer blocks, and the consumer block
HeadLabels ==
  << <<>>, <<"BoxTop">>,
     <<"BoxSide", " ", "Kafka", " ", "Performance", " ", "Report", " ", "(", "CLI", ")", " ",
       "BoxSide">>,
     <<"BoxBottom">>, <<>>,
     <<"ChartIcon", " ", "Test", " ", "Configuration">>, <<"Rule">>,
     <<"Topic", ":">>, <<"Bootstrap", ":">>, <<"Records", ":">>, <<>>,
     <<"RocketIcon", " ", "Producer", " ", "Results", " ", "(", "TPS", " ", "is", " ",
       "most", " ", "important", ")">>,
     <<"Rule">>,
     <<"TPS", ":">>, <<"Throughput", ":">>, <<"Records", " ", "Sent", ":">>,
     <<"Latency", " ", "Avg", ":">>, <<"Latency", " ", "Max", ":">>, <<"P50/P95/P99", ":">>,
     <<"P99.9", ":">> >>
ConsumerLabels ==
  << <<>>, <<"InboxIcon", " ", "Consumer", " ", "Results">>, <<"Rule">>,
     <<"Window", ":">>, <<"Duration", ":">>, <<"Consumed", ":">>, <<"TPS", ":">>,
     <<"Throughput", ":">>, <<>>, <<"Fetch", " ", "Stats", ":">>,
     <<" ", " ", "Time", ":">>, <<" ", " ", "Rate", ":">>, <<" ", " ", "Rebalance", ":">> >>

\* the fields with a line of their own: the key, the line, what precedes and
\* what follows the value
OwnLineRows ==
  { <<"topic", 8, <<"Topic", ":">> \o Pad(8), <<>> >>,
    <<"bootstrap", 9, <<"Bootstrap", ":">> \o Pad(4), <<>> >>,
    <<"records_line", 10, <<"Records", ":">> \o Pad(6), <<>> >>,
    <<"tps", 14, <<"TPS", ":">> \o Pad(10), <<" ", "msg/s", " ", "StarIcon">> >>,
    <<"mbps", 15, <<"Throughput", ":">> \o Pad(3), <<>> >>,
    <<"records", 16, <<"Records", " ", "Sent", ":">> \o Pad(1), <<>> >>,
    <<"avg_ms", 17, <<"Latency", " ", "Avg", ":">> \o Pad(2), <<" ", "ms">> >>,
    <<"max_ms", 18, <<"Latency", " ", "Max", ":">> \o Pad(2), <<" ", "ms">> >>,
    <<"p999", 20, <<"P99.9", ":">> \o Pad(8), <<" ", "ms">> >>,
    <<"consumer_duration", 25, <<"Duration", ":">> \o Pad(5), <<"s", " ", "TimerIcon">> >>,
    <<"consumer_msgps", 27, <<"TPS", ":">> \o Pad(10), <<" ", "msg/s", " ", "StarIcon">> >>,
    <<"consumer_mbps", 28, <<"Throughput", ":">> \o Pad(3), <<" ", "MB/s">> >>,
    <<"consumer_fetch_ms", 31, Pad(2) \o <<"Time", ":">> \o Pad(7), <<" ", "ms">> >>,
    <<"consumer_rebalance_ms", 33, Pad(2) \o <<"Rebalance", ":">> \o Pad(2), <<" ", "ms">> >> }

\* the fields that share a line: the key, the line, the text that holds the
\* value when the value is "N/A"
SharedLineRows ==
  { <<"p50", 19, <<"P50/P95/P99", ":", " ", " ", "N/A", " ", "/", " ">> >>,
    <<"p95", 19, <<" ", "/", " ", "N/A", " ", "/", " ">> >>,
    <<"p99", 19, <<" ", "/", " ", "N/A", " ", "ms">> >>,
    <<"consumer_start", 24, <<"Window", ":">> \o Pad(7) \o <<"N/A", " ", "Arrow", " ">> >>,
    <<"consumer_end", 24, <<" ", "Arrow", " ", "N/A">> >>,
    <<"consumer_mb", 26, <<" ", "msgs", " ", "(", "N/A", " ", "MB", ")">> >>,
    <<"consumer_fetch_mbps", 32,
      Pad(2) \o <<"Rate", ":">> \o Pad(7) \o <<"N/A", " ", "MB/s", " ", "|">> >>,
    <<"consumer_fetch_msgps", 32, <<" ", "|", " ", "N/A", " ", "msg/s">> >> }

\* C23: the lines of every emitted block of the text report are the same, in
\* the same order, for every model; a field whose value is "N/A" is shown as
\* the text "N/A" on its labelled line, not as "0", not as an empty text,
\* and its line is not dropped.
C23_FixedLayoutSentinelShown ==
  Reported =>
    LET lines == ReportLines
        labels == [i \in 1..(Len(lines) - 1) |-> LineLabel(lines[i])]
    IN /\ lines[Len(lines)] = <<>>
       /\ labels \in {HeadLabels, HeadLabels \o ConsumerLabels}
       /\ \A row \in OwnLineRows :
            (row[2] <= Len(labels) /\ result.val[row[1]] = NA) =>
              lines[row[2]] = row[3] \o <<"N/A">> \o row[4]
       /\ \A row \in SharedLineRows :
            (row[2] <= Len(labels) /\ result.val[row[1]] = NA) =>
              Contains(row[3], lines[row[2]])

\* a producer line of seven fields: p999 is shown as N/A
C23_Witness ==
  /\ Reported
  /\ content = ProducerDoc(ProducerLine(7, BaseTokens, 1, BaseRate))
  /\ result.val["p999"] = NA
  /\ ReportLines[20] = <<"P99.9", ":">> \o Pad(8) \o <<"N/A", " ", "ms">>

VolumeUnits == {"bytes", "KB", "MB", "GB", "TB"}
RateUnits == {"KB/s", "MB/s"}

\* C29: in the text report of a model parse_summary returned, each consumer
\* quantity has one unit: the Consumed volume and the Throughput and Fetch
\* Rate values are not followed by a second unit ('KB' then 'MB', 'KB/s'
\* then 'MB/s').
C29_OneUnitPerQuantity ==
  (Reported /\ Len(ReportLines) > Len(HeadLabels) + 1) =>
    /\ \A u \in VolumeUnits : ~Contains(<<u, " ", "MB", ")">>, ReportLines[26])
    /\ \A u \in RateUnits : ~Contains(<<u, " ", "MB/s">>, ReportLines[28])
    /\ \A u \in RateUnits : ~Contains(<<u, " ", "MB/s">>, ReportLines[32])

(***************************************************************************)
(* Properties of the render command.                                       *)
(***************************************************************************)
PagePrinted == rpc \in {"rendered", "returned"} /\ report # <<>> /\ html # <<>>

\* the text of a cell of the page without the unit that follows the value
CellValue(cell, unit) == SubSeq(html[cell], 1, Len(html[cell]) - Len(unit))

\* the fields shown alone on a line of the text report: the cell of the page,
\* the unit after the value in the cell, the line of the report, and what the
\* line has before and after the value
OwnCellRows ==
  { <<"topic", <<>>, 8, <<"Topic", ":">> \o Pad(8), <<>>>>,
    <<"bootstrap", <<>>, 9, <<"Bootstrap", ":">> \o Pad(4), <<>>>>,
    <<"tps", <<>>, 14, <<"TPS", ":">> \o Pad(10), <<" ", "msg/s", " ", "StarIcon">>>>,
    <<"mbps", <<>>, 15, <<"Throughput", ":">> \o Pad(3), <<>>>>,
    <<"records_sent", <<>>, 16, <<"Records", " ", "Sent", ":">> \o Pad(1), <<>>>>,
    <<"avg_ms", <<>>, 17, <<"Latency", " ", "Avg", ":">> \o Pad(2), <<" ", "ms">>>>,
    <<"max_ms", <<>>, 18, <<"Latency", " ", "Max", ":">> \o Pad(2), <<" ", "ms">>>>,
    <<"p999", <<" ", "ms">>, 20, <<"P99.9", ":">> \o Pad(8), <<" ", "ms">>>>,
    <<"window", <<>>, 24, <<"Window", ":">> \o Pad(7), <<>>>>,
    <<"consumer_msgps", <<" ", "msg/s">>, 26, <<"TPS", ":">> \o Pad(10), <<" ", "msg/s">>>>,
    <<"consumer_mbps", <<" ", "MB/s">>, 27, <<"Throughput", ":">> \o Pad(3),
      <<" ", "MB/s">>>> }

\* C24: once one render call has printed the text report and written the
\* page, every field shown in both has the same value string in both: each
\* line of the text report is its caption, the value the page shows in the
\* field's cell, and its unit; the percentile line and the consumed line are
\* made of the values of their three and two cells
C24_SameValuesInTextAndHtml ==
  PagePrinted =>
    /\ \A row \in OwnCellRows :
         /\ EndsWith(html[row[1]], row[2])
         /\ ReportLines[row[3]] = row[4] \o CellValue(row[1], row[2]) \o row[5]
    /\ \A cell \in {"p50", "p95", "p99"} : EndsWith(html[cell], <<" ", "ms">>)
    /\ ReportLines[19] =
         <<"P50/P95/P99", ":">> \o Pad(2) \o CellValue("p50", <<" ", "ms">>)
           \o <<" ", "/", " ">> \o CellValue("p95", <<" ", "ms">>)
           \o <<" ", "/", " ">> \o CellValue("p99", <<" ", "ms">>) \o <<" ", "ms">>
    /\ EndsWith(html["consumer_mb"], <<" ", "MB">>)
    /\ ReportLines[25] =
         <<"Consumed", ":">> \o Pad(5) \o html["consumer_msgs"]
           \o <<" ", "msgs", " ", "(">> \o CellValue("consumer_mb", <<" ", "MB">>)
           \o <<" ", "MB", ")">>

\* a page written for a summary with both sections, its text report printed
C24_Witness ==
  /\ PagePrinted
  /\ rpc = "returned"
  /\ html["tps"] = <<"8", "3", "3">>
  /\ html["consumer_msgs"] = <<"1", "0", "0", "0">>
  /\ html["consumer_mb"] # html["consumer_msgs"] \o <<" ", "MB">>
  /\ ReportLines[14] = <<"TPS", ":">> \o Pad(10) \o <<"8", "3", "3", " ", "msg/s", " ",
                                                     "StarIcon">>

RenderEnded == rpc \in {"returned", "exited"}

\* C25: when the summary file given to render does not exist the command
\* ends in an error outcome, no report is printed or written, and nothing
\* announces a generated report
C25_MissingSummaryFailsHard ==
  (RenderEnded /\ "exists" \in DOMAIN cfg /\ ~cfg.exists) =>
    /\ rpc = "exited"
    /\ report = <<>> /\ html = <<>> /\ "report.html" \notin files
    /\ ~Happened("open_in_browser")

\* C30: on every summary on which _render_report and parse_summary both
\* complete, the fields both compute have the same value
C30_RenderAgreesWithParser ==
  extracted # <<>> =>
    \A parsed \in {ParseSummary(content)} :
      parsed.kind = "ok" => \A key \in RenderKeys : extracted[key] = parsed.val[key]

(***************************************************************************)
(* Properties of the order of run().                                       *)
(***************************************************************************)
Times(e) == Cardinality({i \in 1..Len(events) : events[i] = e})

\* a happened, b happened, and every a is before every b
Before(a, b) ==
  /\ Happened(a) /\ Happened(b)
  /\ \A i, j \in 1..Len(events) : (events[i] = a /\ events[j] = b) => i < j

\* C26: in run() the consumer tool is invoked only after the producer
\* invocation has returned, its raw output has been written and its summary
\* line, if it printed one, has been appended; the text report is rendered
\* only after the last append to the summary document and the HTML report
\* after the text report; each tool is invoked at most once, the producer
\* never after the consumer
C26_PhasesOrdered ==
  /\ \A e \in {"producer", "consumer", "render_text", "render_html"} : Times(e) <= 1
  /\ Happened("consumer") =>
       /\ Before("producer", "producer.out")
       /\ Before("producer.out", "consumer")
       /\ "producer.out" \in files
       /\ ProducerSummaryLine(prodOut) # <<>> =>
            /\ Before("producer_summary", "consumer")
            /\ Contains(ProducerHeader \o <<NL>> \o ProducerSummaryLine(prodOut), summary)
  /\ Happened("render_text") =>
       /\ Before("producer", "render_text")
       /\ Before("report_msg", "render_text")
       /\ \A e \in {"producer_summary", "consumer", "consumer_summary"} :
            Happened(e) => Before(e, "report_msg")
       /\ EndsWith(summary, ReportMsg(cfg.consumer))
  /\ Happened("render_html") => Before("render_text", "render_html")

\* a run that invoked both tools, appended both sections and rendered both
\* reports
C26_Witness ==
  /\ rpc = "returned"
  /\ Before("producer_summary", "consumer")
  /\ Before("consumer_summary", "report_msg")
  /\ Before("render_text", "render_html")

\* the consumer tool printed its column line and then a metrics line
ColumnLineFirst == consOut = ColumnLine \o <<NL>> \o BaseConsumerLine \o <<NL>>

\* the number of times the header occurs in the summary document
Sections(header) ==
  Cardinality({i \in 1..Len(summary) : MatchAt(header, summary, i)})

\* C27: when the consumer tool prints its column line followed by metrics
\* lines, the line run() writes under 'Consumer Summary:' is a metrics line
\* and not the column line; a run writes at most one such section
C27_SummaryIsMetricsLine ==
  /\ Sections(ConsumerHeader) <= 1
  /\ (Happened("consumer_summary") /\ ColumnLineFirst) =>
       /\ ExtractSection(summary, ConsumerHeader) # ColumnLine
       /\ ExtractSection(summary, ConsumerHeader) = BaseConsumerLine

\* run() or check() has returned, raised or ended the process
OperationEnded == rpc \in {"returned", "raised", "exited"}

\* C28: when run() or check() has returned, raised or exited, every
\* temporary file created for it (the two MSK properties files, the minified
\* payload) has been deleted
C28_TempFilesDeleted == OperationEnded => temps = {}


====
